---- MODULE Spec2Model ----
(***************************************************************************)
(* BASIC Scanner (DWE64/scanandorganize): the folder watcher, the          *)
(* orchestrator process_one_pdf and the file mover, as a state machine.    *)
(*                                                                         *)
(* File names, rule keys and templates are sequences of one-character      *)
(* strings, so that pathlib's stem/suffix split, str.strip and str.lower   *)
(* are computed rather than assumed.                                       *)
(*                                                                         *)
(* Specifications:                                                         *)
(*   SpecMove  - process_one_pdf called on one file after another          *)
(*               (cmd_test_file), every call one atomic step, any step of  *)
(*               which the operating system may refuse;                    *)
(*   SpecRoute - the same calls under every configuration, dry or live;    *)
(*   SpecWatch - StableFileHandler alone, with an arbitrary callback;      *)
(*   Spec      - cmd_run: listener, ticker thread and startup-scan thread  *)
(*               running process_one_pdf concurrently on one file system.  *)
(***************************************************************************)
EXTENDS Integers, Sequences, FiniteSets, TLC

VARIABLES fs, dirs, config, last, now, pending, lastObs, dispatched, scan, pipe, queue, arrived, written, stop, input, output

vars == <<fs, dirs, config, last, now, pending, lastObs, dispatched, scan, pipe, queue, arrived, written, stop, input, output>>

-----------------------------------------------------------------------------
(* Bounds of the model.                                                    *)

\* Number of documents the scanner drops into the inbox.
NDocs == 2
\* Most files the file system holds (failed copies leave files behind).
MaxFiles == 3
\* Last instant of the clock in SpecWatch.
MaxTime == 4
\* The configured stability_seconds (debounce duration) of the model's watcher.
StabilitySeconds == 2
\* Largest file size the environment writes.
MaxSize == 2
\* min_file_size, as run_watcher and cmd_run leave it.
MinFileSize == 0

-----------------------------------------------------------------------------
(* Strings.                                                                *)

Max(S) == CHOOSE x \in S : \A y \in S : y <= x

DigitChar == <<"0", "1", "2", "3", "4", "5", "6", "7", "8", "9">>

\* str(i) inside the f-string of _unique_path, and the clock's digits.
RECURSIVE IntToStr(_)
IntToStr(i) ==
    IF i < 10 THEN <<DigitChar[i + 1]>>
    ELSE IntToStr(i \div 10) \o <<DigitChar[(i % 10) + 1]>>

\* str.lower on one character (the letters the model's alphabet holds).
LowerChar(c) ==
    CASE c = "A" -> "a"
      [] c = "B" -> "b"
      [] c = "C" -> "c"
      [] c = "D" -> "d"
      [] c = "E" -> "e"
      [] c = "F" -> "f"
      [] c = "G" -> "g"
      [] c = "H" -> "h"
      [] c = "I" -> "i"
      [] c = "J" -> "j"
      [] c = "K" -> "k"
      [] c = "L" -> "l"
      [] c = "M" -> "m"
      [] c = "N" -> "n"
      [] c = "O" -> "o"
      [] c = "P" -> "p"
      [] c = "Q" -> "q"
      [] c = "R" -> "r"
      [] c = "S" -> "s"
      [] c = "T" -> "t"
      [] c = "U" -> "u"
      [] c = "V" -> "v"
      [] c = "W" -> "w"
      [] c = "X" -> "x"
      [] c = "Y" -> "y"
      [] c = "Z" -> "z"
      [] c = "É" -> "é"
      [] c = "Ô" -> "ô"
      [] OTHER -> c

Lower(s) == [i \in 1..Len(s) |-> LowerChar(s[i])]

Whitespace == {" ", "\t", "\n"}

\* str.strip(): leading and trailing whitespace removed.
Strip(s) ==
    LET keep == {i \in 1..Len(s) : s[i] \notin Whitespace}
    IN  IF keep = {} THEN <<>>
        ELSE SubSeq(s, CHOOSE i \in keep : \A j \in keep : i <= j, Max(keep))

\* pathlib.PurePath.suffix: from the last dot, unless that dot is the first
\* or the last character of the name.
DotIndex(name) ==
    LET dots == {i \in 1..Len(name) : name[i] = "."}
    IN  IF dots = {} THEN 0 ELSE Max(dots)

Suffix(name) ==
    LET i == DotIndex(name)
    IN  IF 1 < i /\ i < Len(name) THEN SubSeq(name, i, Len(name)) ELSE <<>>

\* pathlib.PurePath.stem
Stem(name) ==
    LET i == DotIndex(name)
    IN  IF 1 < i /\ i < Len(name) THEN SubSeq(name, 1, i - 1) ELSE name

PDF == <<".", "p", "d", "f">>
JSON == <<".", "j", "s", "o", "n">>
FAILED == <<"_", "F", "A", "I", "L", "E", "D">>
A_CLASSER == <<"_", "A", "_", "C", "L", "A", "S", "S", "E", "R", "_">>

-----------------------------------------------------------------------------
(* The file system: fs maps a path <<directory, name>> to the file there,  *)
(* [doc, kind, size]; doc is the document the bytes are a copy of, kind is *)
(* "pdf" (whole), "part" (a truncated copy) or "json" (a sidecar record).  *)
(* dirs is the set of directories that exist.                              *)

INBOX == "inbox"
DEST == "dest"
HOLDING == "a_classer"
QUARANTINE == "failed"

NoPath == <<"", <<>>>>
NoError == ""

Exists(f, p) == p \in DOMAIN f

\* Path.is_file()
IsFile(f, p) == p \in DOMAIN f

Remove(f, p) == [q \in DOMAIN f \ {p} |-> f[q]]

Put(f, p, c) == [q \in DOMAIN f \cup {p} |-> IF q = p THEN c ELSE f[q]]

\* The paths that hold a whole copy of document d.
Copies(f, d) == {p \in DOMAIN f : f[p].doc = d /\ f[p].kind = "pdf"}

-----------------------------------------------------------------------------
(* mover.py                                                                *)

\* What the operating system lets happen inside one call: `stage` is the
\* step of the pipeline that fails ("none": nothing does), `q` the step of
\* the quarantine move that fails.  A quarantine move is only made after a
\* failing step, and a dry run reaches no step of the mover.
FailingStages == {"extract", "route", "mkdir", "move_err", "move_dup", "sidecar"}
QStages == {"none", "move_err", "move_dup"}
FaultScenarios(dry_run) ==
    IF dry_run THEN [stage : {"none", "config", "extract", "route"}, q : {"none"}]
    ELSE [stage : {"none", "config"}, q : {"none"}] \cup [stage : FailingStages, q : QStages]

\* The outcome of shutil.move that a failing step stands for.
MoveOutcome(stage) ==
    CASE stage = "move_err" -> "err"
      [] stage = "move_partial" -> "partial"
      [] stage = "move_dup" -> "dup"
      [] OTHER -> "ok"

\* The message str(e) of the exception a failing step raises.
Message(stage) ==
    CASE stage = "extract" -> "extract: exception"
      [] stage = "route" -> "route: exception"
      [] stage = "mkdir" -> "mkdir: OSError"
      [] stage = "sidecar" -> "open: OSError"
      [] OTHER -> "move: OSError"

SourceNotFound == "Fichier source introuvable"

\* f"{stem}_{i}{suffix}"
Candidate(base, i) == Stem(base) \o <<"_">> \o IntToStr(i) \o Suffix(base)

\* The while loop of _unique_path, from suffix i on.
RECURSIVE UniqueFrom(_, _, _, _)
UniqueFrom(f, dir, base, i) ==
    IF ~Exists(f, <<dir, Candidate(base, i)>>) THEN <<dir, Candidate(base, i)>>
    ELSE UniqueFrom(f, dir, base, i + 1)

\* A plausible slip: the name is returned without the existence test.
UniquePathNoTest(f, dir, base) == <<dir, base>>

\* _unique_path(dest_dir, base_name)
UniquePath(f, dir, base) ==
    IF ~Exists(f, <<dir, base>>) THEN <<dir, base>> ELSE UniqueFrom(f, dir, base, 1)

\* shutil.move(src, dst) on a regular file: os.rename, which replaces dst;
\* when os.rename raises OSError, copy2 to dst and then os.unlink(src).
\* outcome "ok": src became dst.  "err": nothing changed (the rename and the
\* copy were both refused).  "partial": the copy broke off, a truncated dst
\* is left and src is untouched.  "dup": the copy is whole and os.unlink(src)
\* raised.  Every outcome but "ok" raises.  A missing src raises at once.
ShutilMove(f, src, dst, outcome) ==
    IF ~Exists(f, src) THEN [fs |-> f, ok |-> FALSE]
    ELSE CASE outcome = "ok" -> [fs |-> Remove(Put(f, dst, f[src]), src), ok |-> TRUE]
           [] outcome = "partial" ->
                 [fs |-> Put(f, dst, [f[src] EXCEPT !.kind = "part"]), ok |-> FALSE]
           [] outcome = "dup" -> [fs |-> Put(f, dst, f[src]), ok |-> FALSE]
           [] OTHER -> [fs |-> f, ok |-> FALSE]

\* ProcessingResult(source_path, dest_dir, dest_filename, moved=False, error=None)
NewResult(src, dir, name) ==
    [source_path |-> src, dest_dir |-> dir, dest_filename |-> name,
     moved |-> FALSE, error |-> NoError]

\* A plausible slip: the dry_run test of move_to_destination is missing.
MoveToDestinationNoDryRun(f, ds, src, dir, name, dry_run, stage) ==
    LET r0 == NewResult(src, dir, name)
        final == UniquePath(f, dir, name)
        mv == ShutilMove(f, src, final, MoveOutcome(stage))
    IN  IF ~IsFile(f, src)
          THEN [fs |-> f, dirs |-> ds, result |-> [r0 EXCEPT !.error = SourceNotFound]]
        ELSE IF stage = "mkdir" \/ ~mv.ok
          THEN [fs |-> mv.fs, dirs |-> ds, result |-> [r0 EXCEPT !.error = Message(stage)]]
        ELSE [fs |-> mv.fs, dirs |-> ds \cup {dir},
              result |-> [r0 EXCEPT !.dest_filename = final[2], !.moved = TRUE]]

\* move_to_destination(source_path, dest_dir, dest_filename, extracted, dry_run)
MoveToDestination(f, ds, src, dir, name, dry_run, stage) ==
    LET r0 == NewResult(src, dir, name)
        final == UniquePath(f, dir, name)
        mv == ShutilMove(f, src, final, MoveOutcome(stage))
    IN  IF dry_run THEN [fs |-> f, dirs |-> ds, result |-> r0]
        ELSE IF ~IsFile(f, src)
          THEN [fs |-> f, dirs |-> ds, result |-> [r0 EXCEPT !.error = SourceNotFound]]
        ELSE IF stage = "mkdir"
          THEN [fs |-> f, dirs |-> ds, result |-> [r0 EXCEPT !.error = Message(stage)]]
        ELSE IF ~mv.ok
          THEN [fs |-> mv.fs, dirs |-> ds \cup {dir},
                result |-> [r0 EXCEPT !.error = Message(stage)]]
        ELSE [fs |-> mv.fs, dirs |-> ds \cup {dir},
              result |-> [r0 EXCEPT !.dest_filename = final[2], !.moved = TRUE]]

\* original_name[:80] if len(original_name) > 80 else original_name
MaxOriginalName == 80
SafeName(name) ==
    IF Len(name) > MaxOriginalName THEN SubSeq(name, 1, MaxOriginalName) ELSE name

\* datetime.now().strftime("%Y%m%d_%H%M%S"): the clock, one value per second.
Timestamp(clock) == IntToStr(clock)

\* final_path.with_suffix(final_path.suffix + ".json")
MetaName(name) == name \o JSON

\* move_to_a_classer(source_path, dossier_a_classer, extracted, dry_run,
\* write_metadata=True).  The sidecar is written after the move, inside the
\* same try, when result.moved is already True.
MoveToAClasser(f, ds, src, dir, dry_run, stage, clock) ==
    LET name == Timestamp(clock) \o A_CLASSER \o SafeName(src[2])
        r0 == NewResult(src, dir, name)
        final == UniquePath(f, dir, name)
        mv == ShutilMove(f, src, final, MoveOutcome(stage))
        r1 == [r0 EXCEPT !.dest_filename = final[2], !.moved = TRUE]
        meta == <<dir, MetaName(final[2])>>
    IN  IF dry_run THEN [fs |-> f, dirs |-> ds, result |-> r0]
        ELSE IF ~IsFile(f, src)
          THEN [fs |-> f, dirs |-> ds, result |-> [r0 EXCEPT !.error = SourceNotFound]]
        ELSE IF stage = "mkdir"
          THEN [fs |-> f, dirs |-> ds, result |-> [r0 EXCEPT !.error = Message(stage)]]
        ELSE IF ~mv.ok
          THEN [fs |-> mv.fs, dirs |-> ds \cup {dir},
                result |-> [r0 EXCEPT !.error = Message(stage)]]
        ELSE IF stage = "sidecar"
          THEN [fs |-> mv.fs, dirs |-> ds \cup {dir},
                result |-> [r1 EXCEPT !.error = Message(stage)]]
        ELSE [fs |-> Put(mv.fs, meta, [doc |-> mv.fs[final].doc, kind |-> "json",
                                       size |-> 1]),
              dirs |-> ds \cup {dir}, result |-> r1]

\* move_to_failed(source_path, dossier_failed, error_message, dry_run):
\* `path` is the returned path, NoPath for None.
MoveToFailed(f, ds, src, dir, dry_run, qstage) ==
    LET base == Stem(src[2]) \o FAILED \o Suffix(src[2])
        final == UniquePath(f, dir, base)
        mv == ShutilMove(f, src, final, MoveOutcome(qstage))
    IN  IF dry_run THEN [fs |-> f, dirs |-> ds, path |-> <<dir, src[2] \o FAILED>>]
        ELSE IF ~IsFile(f, src) THEN [fs |-> f, dirs |-> ds, path |-> NoPath]
        ELSE IF qstage = "mkdir" THEN [fs |-> f, dirs |-> ds, path |-> NoPath]
        ELSE IF ~mv.ok THEN [fs |-> mv.fs, dirs |-> ds \cup {dir}, path |-> NoPath]
        ELSE [fs |-> mv.fs, dirs |-> ds \cup {dir}, path |-> final]

-----------------------------------------------------------------------------
(* rules.py: rule lookup.  A configuration is its regles_classement, a     *)
(* sequence of rules [type, modele_chemin].                                *)

TypeAvoir == <<"a", "v", "o", "i", "r">>
TypeInconnu == <<"i", "n", "c", "o", "n", "n", "u">>
DocTypes == {TypeAvoir, TypeInconnu}

DefaultKeys == {<<"d", "é", "f", "a", "u", "t">>, <<"d", "e", "f", "a", "u", "t">>,
                <<"d", "e", "f", "a", "u", "l", "t">>}

NoRule == [found |-> FALSE, modele_chemin |-> <<>>]
RuleOf(r) == [found |-> TRUE, modele_chemin |-> r.modele_chemin]

\* t = (r.get("type") or "").strip().lower()
RuleKey(r) == Lower(Strip(r.type))

\* The first rule from index i on whose key is in keys.
RECURSIVE FirstRule(_, _, _)
FirstRule(regles, keys, i) ==
    IF i > Len(regles) THEN NoRule
    ELSE IF RuleKey(regles[i]) \in keys THEN RuleOf(regles[i])
    ELSE FirstRule(regles, keys, i + 1)

\* A plausible slip: one loop, the first rule that matches the type or is a
\* default rule.
GetRuleOneLoop(type_document, regles) ==
    FirstRule(regles, {Lower(type_document)} \cup DefaultKeys, 1)

\* A plausible slip: the default rule is looked up before the rule of the
\* type.
GetRuleDefaultFirst(type_document, regles) ==
    IF regles = <<>> THEN NoRule
    ELSE LET dflt == FirstRule(regles, DefaultKeys, 1)
         IN  IF dflt.found THEN dflt ELSE FirstRule(regles, {Lower(type_document)}, 1)

\* get_rule_for_type(type_document, config)
GetRuleForType(type_document, regles) ==
    IF regles = <<>> THEN NoRule
    ELSE LET exact == FirstRule(regles, {Lower(type_document)}, 1)
         IN  IF exact.found THEN exact ELSE FirstRule(regles, DefaultKeys, 1)

-----------------------------------------------------------------------------
(* main.py: process_one_pdf                                                *)

NoResult == NewResult(NoPath, "", <<>>)

\* The record of one call of process_one_pdf: its arguments (path, dry_run),
\* the document at path (doc, -1 when there is no file), what the operating
\* system did (stage; q, once the quarantine move is made), the type the
\* extractor found and the rendered file name, the strategy chosen ("none": the move was never reached), the
\* ProcessingResult of the strategy, whether the source was still at its
\* path when the strategy returned (kept) and the paths it created (left),
\* what the call returned (ret: "raised" an exception, "None", "error" for
\* {"error": ...}, "out" for the result dict; error: the message) and the
\* quarantine move it made (qcalled, its reason, the path it returned).
NoCall ==
    [path |-> NoPath, dry_run |-> FALSE, doc |-> -1, stage |-> "none", q |-> "none",
     type |-> <<>>, rendered |-> <<>>, strategy |-> "none",
     result |-> NoResult, kept |-> TRUE, left |-> {},
     ret |-> "None", error |-> NoError,
     qcalled |-> FALSE, qreason |-> NoError, qpath |-> NoPath]

\* rule and (rule[0] or "").strip()
HasArborescence(rule) == rule.found /\ Strip(rule.modele_chemin) # <<>>

\* A plausible slip: the try block opens after the text extraction, whose
\* exception then leaves process_one_pdf.
ExceptClauseLate(f, ds, c0, msg, flt) ==
    LET q == MoveToFailed(f, ds, c0.path, QUARANTINE, FALSE, flt.q)
    IN  IF flt.stage = "extract"
        THEN [fs |-> f, dirs |-> ds, call |-> [c0 EXCEPT !.ret = "raised", !.error = msg]]
        ELSE IF c0.dry_run
        THEN [fs |-> f, dirs |-> ds, call |-> [c0 EXCEPT !.ret = "error", !.error = msg]]
        ELSE [fs |-> q.fs, dirs |-> q.dirs,
              call |-> [c0 EXCEPT !.ret = "error", !.error = msg, !.qcalled = TRUE,
                                  !.q = flt.q, !.qreason = msg, !.qpath = q.path]]

\* The except clause of process_one_pdf (lines 110-116).
ExceptClause(f, ds, c0, msg, flt) ==
    LET q == MoveToFailed(f, ds, c0.path, QUARANTINE, FALSE, flt.q)
    IN  IF c0.dry_run
        THEN [fs |-> f, dirs |-> ds, call |-> [c0 EXCEPT !.ret = "error", !.error = msg]]
        ELSE [fs |-> q.fs, dirs |-> q.dirs,
              call |-> [c0 EXCEPT !.ret = "error", !.error = msg, !.qcalled = TRUE,
                                  !.q = flt.q, !.qreason = msg, !.qpath = q.path]]

\* Lines 93-98: the strategy's error sends the source path to quarantine.
AfterMove(mv, c1, flt) ==
    LET q == MoveToFailed(mv.fs, mv.dirs, c1.path, QUARANTINE, FALSE, flt.q)
    IN  IF mv.result.error # NoError /\ ~c1.dry_run
        THEN [fs |-> q.fs, dirs |-> q.dirs,
              call |-> [c1 EXCEPT !.ret = "error", !.error = mv.result.error,
                                  !.qcalled = TRUE, !.q = flt.q,
                                  !.qreason = mv.result.error, !.qpath = q.path]]
        ELSE [fs |-> mv.fs, dirs |-> mv.dirs, call |-> [c1 EXCEPT !.ret = "out"]]

\* process_one_pdf(pdf_path, config, dry_run).  ex is what the extractor and
\* the rule engine make of the file: its type_document and the rendered
\* dest_filename; the rendered destination directory is DEST.
ProcessOnePdf(f, ds, path, regles, dry_run, ex, flt, clock) ==
    LET c0 == [NoCall EXCEPT !.path = path, !.dry_run = dry_run, !.stage = flt.stage,
                             !.doc = IF IsFile(f, path) THEN f[path].doc ELSE -1]
        rule == GetRuleForType(ex.type_document, regles)
        direct == HasArborescence(rule)
        mv == IF direct
              THEN MoveToDestination(f, ds, path, DEST, ex.dest_filename, dry_run, flt.stage)
              ELSE MoveToAClasser(f, ds, path, HOLDING, dry_run, flt.stage, clock)
        c1 == [c0 EXCEPT !.type = ex.type_document,
                         !.rendered = ex.dest_filename,
                         !.strategy = IF direct THEN "direct" ELSE "holding",
                         !.result = mv.result,
                         !.kept = IsFile(mv.fs, path),
                         !.left = DOMAIN mv.fs \ DOMAIN f]
    IN  IF flt.stage = "config"
          THEN [fs |-> f, dirs |-> ds, call |-> [c0 EXCEPT !.ret = "raised"]]
        ELSE IF ~IsFile(f, path)
          THEN [fs |-> f, dirs |-> ds, call |-> c0]
        ELSE IF flt.stage \in {"extract", "route"}
          THEN ExceptClause(f, ds, c0, Message(flt.stage), flt)
        ELSE AfterMove(mv, c1, flt)

-----------------------------------------------------------------------------
(* SpecMove: documents arrive in the inbox and process_one_pdf is called   *)
(* on one path after another, each call one step.                          *)

Docs == 1..NDocs

NameA == <<"a">> \o PDF
InboxNames == {NameA}

NameF == <<"f">> \o PDF
NameF1 == <<"f", "_", "1">> \o PDF
RenderedNames == {NameF, NameF1}

Extracted == [type_document : DocTypes, dest_filename : RenderedNames]

Rule(type, chemin) == [type |-> type, modele_chemin |-> chemin]
PathTemplate == <<"F", "/", "{", "Y", "}">>
Configs ==
    { <<>>,
      <<Rule(TypeAvoir, PathTemplate)>>,
      <<Rule(<<"d", "e", "f", "a", "u", "l", "t">>, PathTemplate), Rule(TypeAvoir, <<" ">>)>>,
      <<Rule(<<" ", "A", "v", "o", "i", "r">>, PathTemplate), Rule(<<"D", "é", "f", "a", "u", "t">>, <<>>)>> }

NewFile(d, size) == [doc |-> d, kind |-> "pdf", size |-> size]

EmptyFs == [p \in {} |-> NewFile(0, 1)]

\* An earlier run left a file of another document (document 0) at the
\* first rendered name of the destination directory.
OldFs == Put(EmptyFs, <<DEST, NameF>>, NewFile(0, 1))

\* The configuration of SpecMove: a rule for avoir, none for inconnu.
ConfigMove == <<Rule(TypeAvoir, PathTemplate)>>

\* No function of the extractor is being applied: input is the argument of
\* the function a specification applies, output its result once computed.
NoInput == <<>>
NoOutput == [done |-> FALSE, value |-> <<>>]

\* Nothing is tracked by the watcher.
EmptyPending == [p \in {} |-> [size |-> 0, ts |-> 0]]
EmptyObs == [p \in {} |-> [ts |-> 0, why |-> "registered"]]

\* No thread of cmd_run is running: no startup scan, no call in progress.
ScanOff == [pc |-> "off", todo |-> {}]
Threads == {"ticker", "scan"}
Idle == [pc |-> "idle", path |-> NoPath, strategy |-> "none", name |-> <<>>,
         final |-> NoPath, error |-> NoError]
NoPipes == [t \in Threads |-> Idle]

InitCommon ==
    /\ dirs = {INBOX}
    /\ last = NoCall
    /\ now = 0
    /\ pending = EmptyPending
    /\ lastObs = EmptyObs
    /\ dispatched = {}
    /\ scan = ScanOff
    /\ pipe = NoPipes
    /\ queue = {}
    /\ arrived = 0
    /\ written = {}
    /\ stop = "run"

InitMove ==
    /\ fs \in {EmptyFs, OldFs}
    /\ config = ConfigMove
    /\ InitCommon
    /\ input = NoInput
    /\ output = NoOutput

\* The scanner drops the next document into the inbox; arrived counts them.
Arrive(name) ==
    /\ ~Exists(fs, <<INBOX, name>>)
    /\ Cardinality(DOMAIN fs) < MaxFiles
    /\ arrived < NDocs
    /\ arrived' = arrived + 1
    /\ fs' = Put(fs, <<INBOX, name>>, NewFile(arrived + 1, 1))
    /\ UNCHANGED <<dirs, config, last, now, pending, lastObs, dispatched, scan, pipe, queue, written, stop, input, output>>

\* One call of process_one_pdf (cmd_test_file, on_stable_file).
Process(name, dry_run, flt) ==
    \E ex \in Extracted :
        LET r == ProcessOnePdf(fs, dirs, <<INBOX, name>>, config, dry_run, ex, flt, now)
        IN  /\ Cardinality(DOMAIN r.fs) <= MaxFiles
            /\ fs' = r.fs
            /\ dirs' = r.dirs
            /\ last' = r.call
            /\ UNCHANGED <<config, now, pending, lastObs, dispatched, scan, pipe, queue, arrived, written, stop, input, output>>

NextMove ==
    \/ \E name \in InboxNames : Arrive(name)
    \/ \E name \in InboxNames, flt \in FaultScenarios(FALSE) : Process(name, FALSE, flt)

SpecMove == InitMove /\ [][NextMove]_vars

-----------------------------------------------------------------------------
(* SpecRoute: process_one_pdf under every configuration, dry run or live;  *)
(* the only failures are those met before the move.                        *)

InitRoute ==
    /\ fs = EmptyFs
    /\ config \in Configs
    /\ InitCommon
    /\ input = NoInput
    /\ output = NoOutput

NextRoute ==
    \/ \E name \in InboxNames : Arrive(name)
    \/ \E name \in InboxNames, dry_run \in BOOLEAN, flt \in FaultScenarios(TRUE) :
          Process(name, dry_run, flt)

SpecRoute == InitRoute /\ [][NextRoute]_vars

-----------------------------------------------------------------------------
(* watcher.py: StableFileHandler.  pending maps a tracked path to          *)
(* [size, ts], the (last_size, last_check_time) of _pending.               *)

NameB == <<"b">> \o PDF
WatchNames == {NameA, NameB}

EndsWith(name, tail) ==
    Len(name) >= Len(tail) /\ SubSeq(name, Len(name) - Len(tail) + 1, Len(name)) = tail

StartsWith(name, head) == Len(name) >= Len(head) /\ SubSeq(name, 1, Len(head)) = head

\* _matches_exclude with the default patterns ["*.tmp", "~*", "*.part"]
MatchesExclude(name) ==
    \/ EndsWith(name, <<".", "t", "m", "p">>)
    \/ StartsWith(name, <<"~">>)
    \/ EndsWith(name, <<".", "p", "a", "r", "t">>)

\* _is_pdf: path.suffix.lower() == ".pdf"
IsPdf(name) == Lower(Suffix(name)) = PDF

\* _should_ignore(path)
ShouldIgnore(f, p, min_file_size) ==
    \/ ~IsPdf(p[2])
    \/ MatchesExclude(p[2])
    \/ ~Exists(f, p)
    \/ f[p].size < min_file_size

\* A plausible slip: without the test `if path in self._pending`, every
\* notification records the current size and time again.
ScheduleCheckOverwrites(pend, f, p, clock) ==
    IF ~Exists(f, p) THEN pend
    ELSE [q \in DOMAIN pend \cup {p} |->
            IF q = p THEN [size |-> f[p].size, ts |-> clock] ELSE pend[q]]

\* _schedule_check(path): the pending map afterwards.
ScheduleCheck(pend, f, p, clock) ==
    IF p \in DOMAIN pend THEN pend
    ELSE IF ~Exists(f, p) THEN pend
    ELSE [q \in DOMAIN pend \cup {p} |->
            IF q = p THEN [size |-> f[p].size, ts |-> clock] ELSE pend[q]]

\* on_created / on_modified for a file event on path p.
OnEvent(pend, f, p, clock, min_file_size) ==
    IF ShouldIgnore(f, p, min_file_size) THEN pend ELSE ScheduleCheck(pend, f, p, clock)

\* A plausible slip: the changed size is recorded and the loop goes on to
\* the elapsed-time test instead of restarting the delay.
VerdictNoRestart(pend, f, p, clock, stability) ==
    IF ~Exists(f, p) THEN "remove"
    ELSE IF clock - pend[p].ts >= stability THEN "process"
    ELSE IF f[p].size # pend[p].size THEN "reset"
    ELSE "wait"

\* A plausible slip: the test of path.exists() is left out, a missing file
\* is kept until its delay has elapsed.
VerdictNoExistsTest(pend, f, p, clock, stability) ==
    IF Exists(f, p) /\ f[p].size # pend[p].size THEN "reset"
    ELSE IF clock - pend[p].ts >= stability THEN "process"
    ELSE "wait"

\* The first loop of _check_pending, for one entry: what becomes of it.
\* "remove": the file is gone; "reset": the size changed; "process": stable
\* for stability_seconds; "wait" otherwise.
Verdict(pend, f, p, clock, stability) ==
    IF ~Exists(f, p) THEN "remove"
    ELSE IF f[p].size # pend[p].size THEN "reset"
    ELSE IF clock - pend[p].ts >= stability THEN "process"
    ELSE "wait"

\* to_process of _check_pending
ToProcess(pend, f, clock, stability) ==
    {p \in DOMAIN pend : Verdict(pend, f, p, clock, stability) = "process"}

\* A plausible slip: the entries found stable are handed to the callback
\* but stay in _pending.
AfterCheckKeepsStable(pend, f, clock, stability) ==
    LET keep == {p \in DOMAIN pend : Exists(f, p)}
    IN  [p \in keep |->
            IF f[p].size # pend[p].size
            THEN [size |-> f[p].size, ts |-> clock] ELSE pend[p]]

\* _pending after the two loops that update it (lines 83-104).
AfterCheck(pend, f, clock, stability) ==
    LET keep == {p \in DOMAIN pend :
                    Verdict(pend, f, p, clock, stability) \in {"reset", "wait"}}
    IN  [p \in keep |->
            IF Verdict(pend, f, p, clock, stability) = "reset"
            THEN [size |-> f[p].size, ts |-> clock] ELSE pend[p]]

\* A plausible slip: the dispatch loop without its _should_ignore test.
DispatchUnfiltered(pend, f, clock, stability, min_file_size) ==
    {p \in DOMAIN pend :
        /\ Exists(f, p) /\ f[p].size = pend[p].size
        /\ clock - pend[p].ts >= stability}

\* The paths of to_process handed to on_stable_file (line 107).
Dispatch(pend, f, clock, stability, min_file_size) ==
    {p \in ToProcess(pend, f, clock, stability) : ~ShouldIgnore(f, p, min_file_size)}

\* lastObs, the history the claims speak of: for every tracked path the
\* instant it was registered or, later, the instant of the latest check
\* that saw a size different from the recorded one, and which of the two.
ObsAfterEvent(pend2) ==
    [p \in DOMAIN pend2 |->
        IF p \in DOMAIN pending THEN lastObs[p] ELSE [ts |-> now, why |-> "registered"]]

ObsAfterCheck(pend2) ==
    [p \in DOMAIN pend2 |->
        IF Exists(fs, p) /\ fs[p].size # pending[p].size
        THEN [ts |-> now, why |-> "changed"] ELSE lastObs[p]]

\* What is known of one dispatch: the path, the instant, the size the file
\* had at the check, the entry of _pending (rec) and its history (obs), and
\* the thread that made the call.
DispatchRecord(p, by) ==
    [path |-> p, at |-> now, by |-> by,
     size |-> IF Exists(fs, p) THEN fs[p].size ELSE -1,
     rec |-> IF p \in DOMAIN pending THEN pending[p] ELSE [size |-> -1, ts |-> -1],
     obs |-> IF p \in DOMAIN lastObs THEN lastObs[p] ELSE [ts |-> -1, why |-> "untracked"]]

-----------------------------------------------------------------------------
(* SpecWatch: a StableFileHandler(stability_seconds = StabilitySeconds) on *)
(* the inbox, its callback arbitrary: it moves the file away, leaves it,   *)
(* or raises.                                                              *)


InitWatch ==
    /\ fs = EmptyFs
    /\ dirs = {INBOX}
    /\ config = <<>>
    /\ last = NoCall
    /\ arrived = 0
    /\ written = {}
    /\ stop = "run"
    /\ input = NoInput
    /\ output = NoOutput
    /\ now = 0
    /\ pending = EmptyPending
    /\ lastObs = EmptyObs
    /\ dispatched = {}
    /\ scan = ScanOff
    /\ pipe = NoPipes
    /\ queue = {}

\* Time passes; dispatched holds the dispatches of the present instant.
Tick ==
    /\ now < MaxTime
    /\ now' = now + 1
    /\ dispatched' = {}
    /\ UNCHANGED <<fs, dirs, config, last, arrived, pending, lastObs, scan, pipe, queue, written, stop, input, output>>

\* The scanner (or anyone) writes the file: it appears, grows or shrinks.
Write(name, size) ==
    LET p == <<INBOX, name>>
    IN  /\ Exists(fs, p) => fs[p].size # size
        /\ fs' = Put(fs, p, NewFile(1, size))
        /\ UNCHANGED <<dirs, config, last, arrived, now, pending, lastObs, dispatched, scan, pipe, queue, written, stop, input, output>>

\* Someone deletes or moves the file away.
Delete(name) ==
    /\ Exists(fs, <<INBOX, name>>)
    /\ fs' = Remove(fs, <<INBOX, name>>)
    /\ UNCHANGED <<dirs, config, last, arrived, now, pending, lastObs, dispatched, scan, pipe, queue, written, stop, input, output>>

\* on_created / on_modified: the observer delivers a file event.
FileEvent(name) ==
    LET pend2 == OnEvent(pending, fs, <<INBOX, name>>, now, MinFileSize)
    IN  /\ pending' = pend2
        /\ lastObs' = ObsAfterEvent(pend2)
        /\ UNCHANGED <<fs, dirs, config, last, arrived, now, dispatched, scan, pipe, queue, written, stop, input, output>>

\* One run of _check_pending.  away: the dispatched files that their
\* callback moved out of the inbox (the others it left, or it raised).
CheckPending(away) ==
    LET pend2 == AfterCheck(pending, fs, now, StabilitySeconds)
        calls == Dispatch(pending, fs, now, StabilitySeconds, MinFileSize)
    IN  /\ away \subseteq calls
        /\ pending' = pend2
        /\ lastObs' = ObsAfterCheck(pend2)
        /\ dispatched' = {DispatchRecord(p, "ticker") : p \in calls}
        /\ fs' = [p \in DOMAIN fs \ away |-> fs[p]]
        /\ UNCHANGED <<dirs, config, last, arrived, now, scan, pipe, queue, written, stop, input, output>>

WatchPaths == {<<INBOX, name>> : name \in WatchNames}

NextWatch ==
    \/ Tick
    \/ \E name \in WatchNames, size \in 0..MaxSize : Write(name, size)
    \/ \E name \in WatchNames : Delete(name)
    \/ \E name \in WatchNames : FileEvent(name)
    \/ \E away \in SUBSET WatchPaths : CheckPending(away)

SpecWatch == InitWatch /\ [][NextWatch]_vars

\* C2: the watcher hands a file to the callback only at a check where the
\* file's size equals the recorded size and at least stability_seconds have
\* passed since the recorded timestamp, which is the instant the file was
\* registered or the instant of the latest check that saw its size differ.
C2_DispatchOnlyWhenStable ==
    /\ \A r \in dispatched :
          /\ r.size = r.rec.size
          /\ r.at - r.rec.ts >= StabilitySeconds
          /\ r.rec.ts = r.obs.ts
    /\ \A p \in DOMAIN pending : p \in DOMAIN lastObs /\ pending[p].ts = lastObs[p].ts

\* C2 witness: a file whose size a check saw change after its registration
\* is dispatched, a full stability duration after that check.
C2_Witness ==
    \E r \in dispatched :
        /\ r.obs.why = "changed"
        /\ r.obs.ts > 0
        /\ r.at - r.obs.ts >= StabilitySeconds

-----------------------------------------------------------------------------
(* Spec: cmd_run.  The observer thread delivers file events to the         *)
(* handler, the ticker thread (stability_loop) runs _check_pending and the *)
(* callback, and the startup-scan thread runs _scan_existing_pdfs and the  *)
(* callback.  The callback is process_one_pdf(path, config, dry_run=False) *)
(* and nothing serializes two calls: a call is a sequence of steps, each   *)
(* one access to the file system.  written is the observer's backlog: the  *)
(* paths written since the last event delivered for them.  queue is the    *)
(* to_process list of the check in progress, pipe the call each thread is  *)
(* in, scan the position of the startup scan.                              *)

\* What the extractor and the rule engine make of a document in this run.
ExtractedRun == [type_document : DocTypes, dest_filename : {NameF}]

\* The inbox when cmd_run starts: empty, or document 1 already there.
StartFs == Put(EmptyFs, <<INBOX, NameA>>, NewFile(1, 1))

Init ==
    /\ fs \in {EmptyFs, StartFs}
    /\ arrived = Cardinality(DOMAIN fs)
    /\ dirs = {INBOX, HOLDING, QUARANTINE}
    /\ config = ConfigMove
    /\ last = NoCall
    /\ now = 0
    /\ pending = EmptyPending
    /\ lastObs = EmptyObs
    /\ dispatched = {}
    /\ scan = [pc |-> "sleep", todo |-> {}]
    /\ pipe = NoPipes
    /\ queue = {}
    /\ written = {}
    /\ stop = "run"
    /\ input = NoInput
    /\ output = NoOutput

\* The scanner writes a new document into the inbox.
Drop(name) ==
    /\ ~Exists(fs, <<INBOX, name>>)
    /\ arrived < NDocs
    /\ Cardinality(DOMAIN fs) < MaxFiles
    /\ arrived' = arrived + 1
    /\ fs' = Put(fs, <<INBOX, name>>, NewFile(arrived + 1, 1))
    /\ written' = written \cup {<<INBOX, name>>}
    /\ UNCHANGED <<dirs, config, last, now, pending, lastObs, dispatched, scan, pipe, queue, stop, input, output>>

\* The observer thread delivers the event of a write: on_created/on_modified.
ObserverEvent(name) ==
    LET p == <<INBOX, name>>
        pend2 == OnEvent(pending, fs, p, now, MinFileSize)
    IN  /\ stop = "run"
        /\ p \in written
        /\ written' = written \ {p}
        /\ pending' = pend2
        /\ lastObs' = ObsAfterEvent(pend2)
        /\ UNCHANGED <<fs, dirs, config, last, arrived, now, dispatched, scan, pipe, queue, stop, input, output>>

\* The process has not exited: its daemon threads (ticker, startup scan)
\* run.  stop is "run", then "stopping" once cmd_run has called
\* observer.stop(), then "exited" once cmd_run has returned.
Alive == stop # "exited"

\* Ctrl+C: cmd_run catches KeyboardInterrupt and calls observer.stop(),
\* which ends the delivery of file events.  The Event of stability_loop
\* (observer._stability_stop) is set nowhere.
Interrupt ==
    /\ stop = "run"
    /\ stop' = "stopping"
    /\ UNCHANGED <<fs, dirs, config, last, arrived, now, pending, lastObs, dispatched, scan, pipe, queue, written, input, output>>

\* observer.join(timeout=5) returns, cmd_run returns and the interpreter
\* exits; the daemon threads end wherever they are.
Exit ==
    /\ stop = "stopping"
    /\ stop' = "exited"
    /\ UNCHANGED <<fs, dirs, config, last, arrived, now, pending, lastObs, dispatched, scan, pipe, queue, written, input, output>>

\* A call of on_stable_file(path) begins on thread t.
Call(t, p) == [pipe EXCEPT ![t] = [Idle EXCEPT !.pc = "check", !.path = p]]

\* Ticker thread, lines 78-104 of _check_pending: the entries are examined,
\* _pending is updated and to_process is built.
TickerCheck ==
    LET pend2 == AfterCheck(pending, fs, now, StabilitySeconds)
    IN  /\ Alive
        /\ pipe["ticker"].pc = "idle"
        /\ queue = {}
        /\ pending' = pend2
        /\ lastObs' = ObsAfterCheck(pend2)
        /\ queue' = {DispatchRecord(p, "ticker") : p \in ToProcess(pending, fs, now, StabilitySeconds)}
        /\ UNCHANGED <<fs, dirs, config, last, arrived, now, dispatched, scan, pipe, written, stop, input, output>>

\* Ticker thread, lines 106-112: the next path of to_process is tested and
\* handed to the callback.
TickerDispatch(r) ==
    /\ Alive
    /\ pipe["ticker"].pc = "idle"
    /\ r \in queue
    /\ queue' = queue \ {r}
    /\ IF Exists(fs, r.path) /\ ~ShouldIgnore(fs, r.path, MinFileSize)
       THEN /\ pipe' = Call("ticker", r.path)
            /\ dispatched' = {r}
       ELSE UNCHANGED <<pipe, dispatched>>
    /\ UNCHANGED <<fs, dirs, config, last, arrived, now, pending, lastObs, scan, written, stop, input, output>>

\* Startup-scan thread: time.sleep(stability_seconds) is over and the inbox
\* is listed.
ScanWake ==
    /\ Alive
    /\ scan.pc = "sleep"
    /\ now >= StabilitySeconds
    /\ scan' = [pc |-> "list", todo |-> {p \in DOMAIN fs : p[1] = INBOX}]
    /\ UNCHANGED <<fs, dirs, config, last, arrived, now, pending, lastObs, dispatched, pipe, queue, written, stop, input, output>>

\* Startup-scan thread, lines 149-156: the next listed path is filtered and
\* handed to the callback.
ScanDispatch(p) ==
    /\ Alive
    /\ scan.pc = "list"
    /\ pipe["scan"].pc = "idle"
    /\ p \in scan.todo
    /\ scan' = [scan EXCEPT !.todo = @ \ {p}]
    /\ IF IsFile(fs, p) /\ IsPdf(p[2]) /\ ~MatchesExclude(p[2])
       THEN /\ pipe' = Call("scan", p)
            /\ dispatched' = {DispatchRecord(p, "scan")}
       ELSE UNCHANGED <<pipe, dispatched>>
    /\ UNCHANGED <<fs, dirs, config, last, arrived, now, pending, lastObs, queue, written, stop, input, output>>

\* Startup-scan thread: the listing is exhausted and the thread ends.
ScanEnd ==
    /\ Alive
    /\ scan.pc = "list"
    /\ pipe["scan"].pc = "idle"
    /\ scan.todo = {}
    /\ scan' = [scan EXCEPT !.pc = "done"]
    /\ UNCHANGED <<fs, dirs, config, last, arrived, now, pending, lastObs, dispatched, pipe, queue, written, stop, input, output>>

\* process_one_pdf, lines 55-91 up to the call of the mover: the is_file
\* test, the extraction and the choice of the strategy.
PipeRoute(t) ==
    LET c == pipe[t]
    IN  /\ Alive
        /\ c.pc = "check"
        /\ IF ~IsFile(fs, c.path)
           THEN pipe' = [pipe EXCEPT ![t] = Idle]
           ELSE \E ex \in ExtractedRun :
                    LET direct == HasArborescence(GetRuleForType(ex.type_document, config))
                    IN  pipe' = [pipe EXCEPT ![t] =
                                    [c EXCEPT !.pc = "mover",
                                              !.strategy = IF direct THEN "direct" ELSE "holding",
                                              !.name = ex.dest_filename]]
        /\ UNCHANGED <<fs, dirs, config, last, arrived, now, pending, lastObs, dispatched, scan, queue, written, stop, input, output>>

\* The mover up to the line before shutil.move: the is_file test,
\* _ensure_dir and _unique_path.
PipeName(t) ==
    LET c == pipe[t]
        dir == IF c.strategy = "direct" THEN DEST ELSE HOLDING
        name == IF c.strategy = "direct" THEN c.name
                ELSE Timestamp(now) \o A_CLASSER \o SafeName(c.path[2])
    IN  /\ Alive
        /\ c.pc = "mover"
        /\ IF ~IsFile(fs, c.path)
           THEN /\ pipe' = [pipe EXCEPT ![t] = [c EXCEPT !.pc = "failed", !.error = SourceNotFound]]
                /\ dirs' = dirs
           ELSE /\ pipe' = [pipe EXCEPT ![t] = [c EXCEPT !.pc = "move", !.name = name,
                                                          !.final = UniquePath(fs, dir, name)]]
                /\ dirs' = dirs \cup {dir}
        /\ UNCHANGED <<fs, config, last, arrived, now, pending, lastObs, dispatched, scan, queue, written, stop, input, output>>

\* shutil.move(source_path, final_path) and, in the holding strategy, the
\* sidecar; the call returns when the move succeeded.
PipeMove(t) ==
    LET c == pipe[t]
        mv == ShutilMove(fs, c.path, c.final, "ok")
        meta == <<c.final[1], MetaName(c.final[2])>>
    IN  /\ Alive
        /\ c.pc = "move"
        /\ IF ~mv.ok
           THEN /\ pipe' = [pipe EXCEPT ![t] = [c EXCEPT !.pc = "failed", !.error = Message("move_err")]]
                /\ fs' = fs
           ELSE /\ pipe' = [pipe EXCEPT ![t] = Idle]
                /\ fs' = IF c.strategy = "direct" THEN mv.fs
                         ELSE Put(mv.fs, meta, [doc |-> mv.fs[c.final].doc, kind |-> "json", size |-> 1])
        /\ UNCHANGED <<dirs, config, last, arrived, now, pending, lastObs, dispatched, scan, queue, written, stop, input, output>>

\* Lines 93-98: the strategy's error sends the source path to quarantine,
\* and the call returns.
PipeFailed(t) ==
    LET c == pipe[t]
        q == MoveToFailed(fs, dirs, c.path, QUARANTINE, FALSE, "none")
    IN  /\ Alive
        /\ c.pc = "failed"
        /\ fs' = q.fs
        /\ dirs' = q.dirs
        /\ pipe' = [pipe EXCEPT ![t] = Idle]
        /\ UNCHANGED <<config, last, arrived, now, pending, lastObs, dispatched, scan, queue, written, stop, input, output>>

Next ==
    \/ Tick
    \/ \E name \in WatchNames : Drop(name)
    \/ \E name \in WatchNames : ObserverEvent(name)
    \/ TickerCheck
    \/ \E r \in queue : TickerDispatch(r)
    \/ ScanWake
    \/ \E p \in WatchPaths : ScanDispatch(p)
    \/ ScanEnd
    \/ \E t \in Threads : PipeRoute(t)
    \/ \E t \in Threads : PipeName(t)
    \/ \E t \in Threads : PipeMove(t)
    \/ \E t \in Threads : PipeFailed(t)
    \/ Interrupt
    \/ Exit

Spec == Init /\ [][Next]_vars

\* C4 (as claimed): two calls of process_one_pdf running at once never hold
\* the same free destination name between _unique_path and the rename, and
\* no document is overwritten: every document that arrived is still stored.
C4_NameAndRenameExclusive ==
    /\ ~(/\ pipe["ticker"].pc = "move" /\ pipe["scan"].pc = "move"
         /\ pipe["ticker"].final = pipe["scan"].final)
    /\ \A d \in 1..arrived : Copies(fs, d) # {}

\* C11 (as claimed): once the stop has been issued the ticker runs no
\* stability check (_pending and to_process are left as they are) and
\* starts no call of the callback.
C11_NoCheckAfterStop ==
    stop # "run" =>
        /\ pending' = pending /\ queue' = queue
        /\ pipe["ticker"].pc = "idle" => pipe'["ticker"].pc = "idle"

C11_StopHaltsTicker == [][C11_NoCheckAfterStop]_vars

\* C10 (as claimed): every file handed to the callback, by the startup scan
\* as by the ticker, is a tracked file whose size a check found equal to the
\* recorded size at least stability_seconds after the recorded timestamp.
C10_StartupFilesDebounced ==
    \A r \in dispatched :
        /\ r.rec.ts >= 0
        /\ r.size = r.rec.size
        /\ r.at - r.rec.ts >= StabilitySeconds

-----------------------------------------------------------------------------
(* Claims about the mover and the orchestrator.                            *)

Min(S) == CHOOSE x \in S : \A y \in S : x <= y

\* The last call was live and ended in a failure.
FailedLive == ~last.dry_run /\ last.ret = "error" /\ last.doc \in Docs

\* C1 (as claimed): after a live call of process_one_pdf that failed, the
\* document exists at exactly one path, which is its source path or a path
\* of the quarantine folder.
C1_ExactlyOnePlace ==
    FailedLive =>
        \E p \in DOMAIN fs :
            /\ Copies(fs, last.doc) = {p}
            /\ p = last.path \/ p[1] = QUARANTINE

\* C3: a direct move that succeeds puts the source file at a path that was
\* free, changes no other file, and names it base when base was free, else
\* stem_k.ext with k >= 1 the smallest suffix whose name was free.
C3_DirectMove ==
    LET src == last'.path
        base == last'.rendered
        final == <<DEST, last'.result.dest_filename>>
        Suffixed(k) == Stem(base) \o <<"_">> \o IntToStr(k) \o Suffix(base)
    IN  (/\ last'.strategy = "direct"
         /\ last'.result.moved
         /\ Exists(fs, src) /\ ~Exists(fs', src))
        =>
        /\ ~Exists(fs, final)
        /\ Exists(fs', final) /\ fs'[final] = fs[src]
        /\ \A p \in DOMAIN fs \ {src} : Exists(fs', p) /\ fs'[p] = fs[p]
        /\ ~Exists(fs, <<DEST, base>>) => final[2] = base
        /\ Exists(fs, <<DEST, base>>) =>
              \E k \in 1..Cardinality(DOMAIN fs) :
                  /\ final[2] = Suffixed(k)
                  /\ \A j \in 1..(k - 1) : Exists(fs, <<DEST, Suffixed(j)>>)

C3_CollisionSafe == [][C3_DirectMove]_vars

\* C3 witness: three files rendered f.pdf sit side by side as f.pdf, f_1.pdf
\* and f_2.pdf, three different documents, the last one just moved.
C3_Witness ==
    /\ last.strategy = "direct" /\ last.result.moved /\ last.rendered = NameF
    /\ last.result.dest_filename = <<"f", "_", "2">> \o PDF
    /\ {<<DEST, NameF>>, <<DEST, NameF1>>, <<DEST, <<"f", "_", "2">> \o PDF>>} \subseteq DOMAIN fs
    /\ Cardinality({fs[<<DEST, NameF>>].doc, fs[<<DEST, NameF1>>].doc,
                    fs[<<DEST, <<"f", "_", "2">> \o PDF>>].doc}) = 3

\* C12 (as claimed): a move is a rename or a reported failure, never a copy
\* followed by a delete: after a call no document is stored both at the
\* call's source path and at a path of a destination, holding or quarantine
\* folder.
C12_NeverAtSourceAndDestination ==
    \A d \in Docs :
        last.path \in Copies(fs, d) =>
            \A p \in Copies(fs, d) : p[1] \notin {DEST, HOLDING, QUARANTINE}

\* C5 (as claimed): a ProcessingResult with moved = true has no error and
\* its destination file exists.
C5_MovedImpliesNoError ==
    last.result.moved =>
        /\ last.result.error = NoError
        /\ Exists(fs, <<last.result.dest_dir, last.result.dest_filename>>)

\* C6 (as claimed): when a strategy reports an error the source file is still
\* at its source path and the strategy left nothing at the destination; when
\* the quarantine move returns None the source file is still at its path.
C6_SourceKeptOnError ==
    /\ last.result.error # NoError => last.kept /\ last.left = {}
    /\ (last.qcalled /\ last.qpath = NoPath) => last.path \in Copies(fs, last.doc)

\* C8 (as claimed): in live mode an error of the chosen strategy is followed
\* by a quarantine move of the source path with that error as its reason and
\* the call returns the error; when the quarantine folder can be written the
\* document ends at quarantine/{stem}_FAILED{ext}, or that name with a
\* collision suffix.
C8_ErrorGoesToQuarantine ==
    (~last.dry_run /\ last.result.error # NoError) =>
        /\ last.qcalled /\ last.qreason = last.result.error
        /\ last.ret = "error" /\ last.error = last.result.error
        /\ last.q = "none" =>
              /\ last.qpath \in Copies(fs, last.doc)
              /\ last.qpath[1] = QUARANTINE
              /\ \/ last.qpath[2] = Stem(last.path[2]) \o FAILED \o Suffix(last.path[2])
                 \/ \E k \in 1..Cardinality(DOMAIN fs) :
                       last.qpath[2] = Stem(last.path[2]) \o FAILED \o <<"_">>
                                         \o IntToStr(k) \o Suffix(last.path[2])

\* The step named by last.stage was reached by the call and raised.
Raised ==
    /\ last.ret # "None"
    /\ \/ last.stage \in {"extract", "route"}
       \/ last.stage \in {"mkdir", "move_err", "move_dup"} /\ last.strategy # "none"
       \/ last.stage = "sidecar" /\ last.strategy = "holding"

\* C9: an exception raised by the extraction, the routing or the move does
\* not leave process_one_pdf: the call returns an error value with the
\* exception's message and, in live mode, has made a quarantine move with
\* that message as its reason.
C9_NoExceptionEscapes ==
    Raised =>
        /\ last.ret = "error"
        /\ last.error = Message(last.stage)
        /\ ~last.dry_run => last.qcalled /\ last.qreason = Message(last.stage)

\* C9 witness: the text extraction raised in a live call, which returned the
\* error and moved the document to the quarantine folder.
C9_Witness ==
    /\ last.stage = "extract" /\ ~last.dry_run /\ last.ret = "error"
    /\ last.qcalled /\ last.qpath[1] = QUARANTINE
    /\ last.qpath \in Copies(fs, last.doc)

\* The rule the configuration selects for a type: the first rule whose key
\* is the type, else the first default rule, else none (the empty set).
Selected(type) ==
    LET key(i) == Lower(Strip(config[i].type))
        exact == {i \in 1..Len(config) : key(i) = Lower(type)}
        dflt == {i \in 1..Len(config) :
                    key(i) \in {<<"d", "é", "f", "a", "u", "t">>,
                                <<"d", "e", "f", "a", "u", "t">>,
                                <<"d", "e", "f", "a", "u", "l", "t">>}}
    IN  IF exact # {} THEN {Min(exact)} ELSE IF dflt # {} THEN {Min(dflt)} ELSE {}

\* C13: a dry-run call changes no file and no directory (also when the
\* extraction or the routing raises), and when it returns a result, that
\* result has moved = false, no error, and the destination directory and
\* file name the live call would use.
C13_DryRunStep ==
    (last'.dry_run /\ last' # last) =>
        /\ fs' = fs /\ dirs' = dirs
        /\ ~last'.result.moved /\ ~last'.qcalled
        /\ last'.ret = "out" =>
              /\ last'.result.error = NoError
              /\ last'.strategy = "direct" =>
                    /\ last'.result.dest_dir = DEST
                    /\ last'.result.dest_filename = last'.rendered
              /\ last'.strategy = "holding" =>
                    /\ last'.result.dest_dir = HOLDING
                    /\ last'.result.dest_filename =
                          Timestamp(now) \o A_CLASSER \o last'.path[2]

C13_DryRunOnlyReports == [][C13_DryRunStep]_vars

\* C13 witness: a dry run reported a direct move of a file that is still
\* in the inbox, and no destination or quarantine directory exists.
C13_Witness ==
    /\ last.dry_run /\ last.ret = "out" /\ last.strategy = "direct"
    /\ last.result.dest_filename = NameF /\ ~last.result.moved
    /\ IsFile(fs, last.path)
    /\ dirs = {INBOX}

\* The selected rule has a path template that is not blank.
ExpectDirect(type) ==
    \E i \in Selected(type) :
        \E j \in 1..Len(config[i].modele_chemin) :
            config[i].modele_chemin[j] \notin {" ", "\t", "\n"}

-----------------------------------------------------------------------------
(* Functions of the extractor.  Each has a specification of its own: Init  *)
(* draws the argument, the one action applies the function.                *)

\* The state of a specification that applies a function to an argument
\* drawn from S: the scanner itself is idle.
InitFunction(S) ==
    /\ fs = EmptyFs
    /\ config = <<>>
    /\ InitCommon
    /\ input \in S
    /\ output = NoOutput

\* The function's result is stored.
Return(value) ==
    /\ ~output.done
    /\ output' = [done |-> TRUE, value |-> value]
    /\ UNCHANGED <<fs, dirs, config, last, now, pending, lastObs, dispatched, scan, pipe, queue, arrived, written, stop, input>>

-----------------------------------------------------------------------------
(* classify.py: compute_confidence.  A score is counted in ten-thousandths *)
(* while it is summed and returned in hundredths, as round(score, 2)       *)
(* leaves it.  None is the string "<None>" for a text field and -1 for an  *)
(* amount (in cents).                                                      *)

None == "<None>"
NoAmount == 0 - 1

\* Python truth of an Optional[str] or Optional[date].
Truthy(x) == x # None /\ x # ""

RecognizedTypes == {"facture_fournisseur", "avoir", "devis", "courrier", "plan", "impots"}

\* round(score, 2), in hundredths: to the nearest, a tie to the even one.
Round2(score) ==
    LET q == score \div 100
        r == score % 100
    IN  IF r < 50 THEN q
        ELSE IF r > 50 THEN q + 1
        ELSE IF q % 2 = 0 THEN q ELSE q + 1

\* A plausible slip: the raw-supplier weight is added by an if, not an elif.
ComputeConfidenceBoth(extracted) ==
    LET s1 == IF Truthy(extracted.fournisseur) THEN 3500 ELSE 0
        s2 == s1 + IF Truthy(extracted.fournisseur_raw) THEN 1000 ELSE 0
        s3 == s2 + IF Truthy(extracted.date_doc) THEN 2500 ELSE 0
        s4 == s3 + IF extracted.type_document \in RecognizedTypes THEN 2000 ELSE 0
        s5 == s4 + IF Truthy(extracted.numero_facture) THEN 1000 ELSE 0
        s6 == s5 + IF extracted.montant_ttc # NoAmount THEN 1000 ELSE 0
    IN  IF Round2(s6) > 100 THEN 100 ELSE Round2(s6)

\* compute_confidence(extracted)
ComputeConfidence(extracted) ==
    LET s1 == IF Truthy(extracted.fournisseur) THEN 3500
              ELSE IF Truthy(extracted.fournisseur_raw) THEN 1000 ELSE 0
        s2 == s1 + IF Truthy(extracted.date_doc) THEN 2500 ELSE 0
        s3 == s2 + IF extracted.type_document \in RecognizedTypes THEN 2000 ELSE 0
        s4 == s3 + IF Truthy(extracted.numero_facture) THEN 1000 ELSE 0
        s5 == s4 + IF extracted.montant_ttc # NoAmount THEN 1000 ELSE 0
    IN  IF Round2(s5) > 100 THEN 100 ELSE Round2(s5)

\* ExtractedData, the fields compute_confidence reads.
ConfidenceInputs ==
    [fournisseur : {None, "", "ACME"},
     fournisseur_raw : {None, "", "acme sarl"},
     date_doc : {None, "2024-03-15"},
     type_document : RecognizedTypes \cup {"inconnu"},
     numero_facture : {None, "", "F-1"},
     montant_ttc : {NoAmount, 0, 1250}]

InitConfidence == InitFunction(ConfidenceInputs)

ConfidenceStep == Return(ComputeConfidence(input))

SpecConfidence == InitConfidence /\ [][ConfidenceStep]_vars

\* The signals of a record, as the claim names them.
Signals(x) ==
    (IF x.fournisseur \notin {None, ""} THEN {"supplier"} ELSE {})
    \cup (IF x.fournisseur \in {None, ""} /\ x.fournisseur_raw \notin {None, ""}
          THEN {"raw"} ELSE {})
    \cup (IF x.date_doc # None THEN {"date"} ELSE {})
    \cup (IF x.type_document \in {"facture_fournisseur", "avoir", "devis", "courrier", "plan", "impots"}
          THEN {"type"} ELSE {})
    \cup (IF x.numero_facture \notin {None, ""} THEN {"number"} ELSE {})
    \cup (IF x.montant_ttc >= 0 THEN {"amount"} ELSE {})

\* The weight of a signal, in hundredths.
Weight(sig) ==
    CASE sig = "supplier" -> 35
      [] sig = "raw" -> 10
      [] sig = "date" -> 25
      [] sig = "type" -> 20
      [] OTHER -> 10

RECURSIVE SumWeights(_)
SumWeights(S) ==
    IF S = {} THEN 0
    ELSE LET sig == CHOOSE x \in S : TRUE IN Weight(sig) + SumWeights(S \ {sig})

\* Field k of x carries a value.
Present(x, k) ==
    CASE k = "montant_ttc" -> x[k] >= 0
      [] k = "type_document" -> x[k] # "inconnu"
      [] OTHER -> x[k] \notin {None, ""}

\* y is x with one absent field made present.
OneMorePresent(x, y) ==
    \E k \in DOMAIN x :
        /\ \A j \in DOMAIN x \ {k} : y[j] = x[j]
        /\ ~Present(x, k)
        /\ Present(y, k)

\* C14: compute_confidence returns a value of [0, 1] (0..100 hundredths)
\* equal to the capped sum of the weights of the signals present, the
\* supplier and raw-supplier-only weights never both counted, and making an
\* absent field present never lowers it.
C14_ConfidenceIsCappedSum ==
    output.done =>
        /\ output.value \in 0..100
        /\ output.value = Min({100, SumWeights(Signals(input))})
        /\ ~({"supplier", "raw"} \subseteq Signals(input))
        /\ \A y \in ConfidenceInputs :
              OneMorePresent(input, y) => ComputeConfidence(y) >= output.value

\* C14 witness: every field is present, the resolved supplier and the raw
\* text both, and the score is 1.
C14_Witness ==
    /\ output.done /\ output.value = 100
    /\ input.fournisseur = "ACME" /\ input.fournisseur_raw = "acme sarl"

-----------------------------------------------------------------------------
(* extract.py: extract_type_document.  A text is a sequence of characters; *)
(* `k in lower` is a substring test.                                       *)

\* KEYWORDS_AVOIR
KEYWORDS_AVOIR ==
    << <<"a", "v", "o", "i", "r">>,
       <<"c", "r", "e", "d", "i", "t", " ", "n", "o", "t", "e">>,
       <<"c", "r", "é", "d", "i", "t">>,
       <<"r", "e", "m", "b", "o", "u", "r", "s", "e", "m", "e", "n", "t">>,
       <<"r", "e", "f", "u", "n", "d">> >>

\* KEYWORDS_FACTURE
KEYWORDS_FACTURE ==
    << <<"f", "a", "c", "t", "u", "r", "e">>,
       <<"i", "n", "v", "o", "i", "c", "e">>,
       <<"r", "e", "c", "h", "n", "u", "n", "g">> >>

\* KEYWORDS_DEVIS
KEYWORDS_DEVIS ==
    << <<"d", "e", "v", "i", "s">>,
       <<"q", "u", "o", "t", "e">>,
       <<"e", "s", "t", "i", "m", "a", "t", "i", "o", "n">>,
       <<"p", "r", "o", "p", "o", "s", "i", "t", "i", "o", "n", " ", "c", "o", "m", "m", "e", "r", "c", "i", "a", "l", "e">>,
       <<"p", "r", "o", "p", "o", "s", "a", "l">> >>

\* KEYWORDS_COURRIER
KEYWORDS_COURRIER ==
    << <<"c", "o", "u", "r", "r", "i", "e", "r">>,
       <<"l", "e", "t", "t", "r", "e">>,
       <<"l", "e", "t", "t", "e", "r">>,
       <<"m", "a", "i", "l">>,
       <<"c", "o", "r", "r", "e", "s", "p", "o", "n", "d", "a", "n", "c", "e">> >>

\* KEYWORDS_PLAN
KEYWORDS_PLAN ==
    << <<"p", "l", "a", "n">>,
       <<"s", "c", "h", "é", "m", "a">>,
       <<"s", "c", "h", "e", "m", "a">>,
       <<"d", "r", "a", "w", "i", "n", "g">>,
       <<"p", "l", "a", "n", " ", "d", "e">>,
       <<"p", "l", "a", "n", " ", "d", "'">> >>

\* KEYWORDS_IMPOTS
KEYWORDS_IMPOTS ==
    << <<"i", "m", "p", "ô", "t", "s">>,
       <<"i", "m", "p", "o", "t", "s">>,
       <<"a", "v", "i", "s", " ", "d", "'", "i", "m", "p", "o", "s", "i", "t", "i", "o", "n">>,
       <<"a", "v", "i", "s", " ", "d", "'", "i", "m", "p", "ô", "t">>,
       <<"d", "g", "f", "i", "p">>,
       <<"u", "r", "s", "s", "a", "f">>,
       <<"c", "a", "f">>,
       <<"t", "a", "x", "e">>,
       <<"f", "i", "s", "c", "a", "l">>,
       <<"r", "e", "v", "e", "n", "u", "s">> >>

\* k in text
Contains(text, k) ==
    \E i \in 1..(Len(text) - Len(k) + 1) : SubSeq(text, i, i + Len(k) - 1) = k

\* for k in keywords: if k in lower: return ...  (from keyword i on)
RECURSIVE AnyKeyword(_, _, _)
AnyKeyword(lower, keywords, i) ==
    IF i > Len(keywords) THEN FALSE
    ELSE IF Contains(lower, keywords[i]) THEN TRUE
    ELSE AnyKeyword(lower, keywords, i + 1)

\* A plausible slip: the invoice keywords are tested before the credit-note
\* keywords.
ExtractTypeFactureFirst(texte) ==
    LET lower == Lower(texte)
    IN  IF AnyKeyword(lower, KEYWORDS_FACTURE, 1) THEN "facture_fournisseur"
        ELSE IF AnyKeyword(lower, KEYWORDS_AVOIR, 1) THEN "avoir"
        ELSE IF AnyKeyword(lower, KEYWORDS_DEVIS, 1) THEN "devis"
        ELSE IF AnyKeyword(lower, KEYWORDS_COURRIER, 1) THEN "courrier"
        ELSE IF AnyKeyword(lower, KEYWORDS_PLAN, 1) THEN "plan"
        ELSE IF AnyKeyword(lower, KEYWORDS_IMPOTS, 1) THEN "impots"
        ELSE "inconnu"

\* extract_type_document(texte)
ExtractTypeDocument(texte) ==
    LET lower == Lower(texte)
    IN  IF AnyKeyword(lower, KEYWORDS_AVOIR, 1) THEN "avoir"
        ELSE IF AnyKeyword(lower, KEYWORDS_FACTURE, 1) THEN "facture_fournisseur"
        ELSE IF AnyKeyword(lower, KEYWORDS_DEVIS, 1) THEN "devis"
        ELSE IF AnyKeyword(lower, KEYWORDS_COURRIER, 1) THEN "courrier"
        ELSE IF AnyKeyword(lower, KEYWORDS_PLAN, 1) THEN "plan"
        ELSE IF AnyKeyword(lower, KEYWORDS_IMPOTS, 1) THEN "impots"
        ELSE "inconnu"

\* Most words of a text.
MaxWords == 2

\* The words the texts are made of.
TypeWords ==
    { <<"F", "a", "c", "t", "u", "r", "e">>,
      <<"A", "V", "O", "I", "R">>,
      <<"C", "r", "e", "d", "i", "t", " ", "N", "o", "t", "e">>,
      <<"d", "e", "v", "i", "s">>,
      <<"L", "e", "t", "t", "r", "e">>,
      <<"s", "c", "h", "é", "m", "a">>,
      <<"U", "R", "S", "S", "A", "F">>,
      <<"t", "o", "t", "a", "l">>,
      <<"n", "°", " ", "1", "2">> }

\* The texts of n words, each followed by a space.
RECURSIVE TextsOf(_, _)
TextsOf(words, n) ==
    IF n = 0 THEN {<<>>}
    ELSE {w \o <<" ">> \o t : w \in words, t \in TextsOf(words, n - 1)}

TextsUpTo(words, n) == UNION {TextsOf(words, k) : k \in 0..n}

InitType == InitFunction(TextsUpTo(TypeWords, MaxWords))

TypeStep == Return(ExtractTypeDocument(input))

SpecType == InitType /\ [][TypeStep]_vars

\* The text holds, in any case of letters, a keyword of the group.
HasKeyword(text, group) ==
    \E n \in 1..Len(group) : \E i \in 1..Len(text) : \E j \in i..Len(text) :
        Lower(SubSeq(text, i, j)) = group[n]

\* C15: the type is that of the first group, in the order credit note,
\* invoice, quote, correspondence, plan, tax, of which the text holds a
\* keyword, inconnu when it holds none; a text with a credit-note keyword
\* and an invoice keyword is an avoir.
C15_TypeLadder ==
    output.done =>
        LET ladder == << <<KEYWORDS_AVOIR, "avoir">>, <<KEYWORDS_FACTURE, "facture_fournisseur">>,
                         <<KEYWORDS_DEVIS, "devis">>, <<KEYWORDS_COURRIER, "courrier">>,
                         <<KEYWORDS_PLAN, "plan">>, <<KEYWORDS_IMPOTS, "impots">> >>
            hits == {n \in 1..Len(ladder) : HasKeyword(input, ladder[n][1])}
        IN  /\ hits = {} => output.value = "inconnu"
            /\ hits # {} => output.value = ladder[Min(hits)][2]
            /\ (HasKeyword(input, KEYWORDS_AVOIR) /\ HasKeyword(input, KEYWORDS_FACTURE))
                  => output.value = "avoir"

\* C15 witness: a text that names an invoice first and a credit note after
\* it is an avoir.
C15_Witness ==
    /\ output.done /\ output.value = "avoir"
    /\ input = <<"F", "a", "c", "t", "u", "r", "e", " ", "C", "r", "e", "d", "i", "t", " ", "N", "o", "t", "e", " ">>

-----------------------------------------------------------------------------
(* rules.py: slugify.                                                      *)

\* Longest input string, and largest max_length, of SpecSlug.
MaxSlugLen == 3

\* The characters of the inputs: letters, an accented letter, whitespace, a
\* dash, an underscore and a punctuation mark.
SlugAlphabet == {"a", "b", "é", " ", "-", "_", "!"}

\* unicodedata.normalize("NFD", value) with the characters of category Mn
\* removed: an accented letter loses its accent.
StripAccents(s) == [i \in 1..Len(s) |-> IF s[i] = "é" THEN "e" ELSE s[i]]

\* \w of the first pattern
WordChar(c) ==
    c \in {"a", "b", "e", "_", "I", "N", "c", "i", "m", "n", "o", "p", "s", "t", "u"}

\* [-\s] of the second pattern
DashOrSpace(c) == c \in {"-", " ", "\t", "\n"}

\* A plausible slip: the first pattern lets the dot through, [^\w\s\-.].
SpecialsToSpaceKeepsDot(s) ==
    [i \in 1..Len(s) |->
        IF WordChar(s[i]) \/ DashOrSpace(s[i]) \/ s[i] = "." THEN s[i] ELSE " "]

\* re.sub(r"[^\w\s\-]", " ", s)
SpecialsToSpace(s) ==
    [i \in 1..Len(s) |-> IF WordChar(s[i]) \/ DashOrSpace(s[i]) THEN s[i] ELSE " "]

\* re.sub(r"[-\s]+", "_", s), from character i on.
RECURSIVE CollapseFrom(_, _)
CollapseFrom(s, i) ==
    IF i > Len(s) THEN <<>>
    ELSE IF ~DashOrSpace(s[i]) THEN <<s[i]>> \o CollapseFrom(s, i + 1)
    ELSE IF i > 1 /\ DashOrSpace(s[i - 1]) THEN CollapseFrom(s, i + 1)
    ELSE <<"_">> \o CollapseFrom(s, i + 1)

\* str.strip("_")
StripUnderscores(s) ==
    LET keep == {i \in 1..Len(s) : s[i] # "_"}
    IN  IF keep = {} THEN <<>> ELSE SubSeq(s, Min(keep), Max(keep))

\* ascii_str[:max_length] if max_length else ascii_str
Truncate(s, max_length) ==
    IF max_length # 0 /\ Len(s) > max_length THEN SubSeq(s, 1, max_length) ELSE s

\* slugify(value, max_length)
Slugify(value, max_length) ==
    IF value = <<>> THEN <<>>
    ELSE Truncate(StripUnderscores(CollapseFrom(SpecialsToSpace(StripAccents(value)), 1)),
                  max_length)

\* The strings of n characters.
RECURSIVE StringsOf(_, _)
StringsOf(alphabet, n) ==
    IF n = 0 THEN {<<>>}
    ELSE {<<c>> \o t : c \in alphabet, t \in StringsOf(alphabet, n - 1)}

SlugInputs ==
    [value : UNION {StringsOf(SlugAlphabet, k) : k \in 0..MaxSlugLen},
     max_length : 0..MaxSlugLen]

InitSlug == InitFunction(SlugInputs)

SlugStep == Return(Slugify(input.value, input.max_length))

SpecSlug == InitSlug /\ [][SlugStep]_vars

\* C16 (as claimed): slugify applied to its own result, with the same
\* maximum length, gives that result again.
C16_SlugifyIdempotent ==
    output.done => Slugify(output.value, input.max_length) = output.value

-----------------------------------------------------------------------------
(* extract.py: extract_date.  The text is given by the matches the three   *)
(* patterns find in it, in document order: a match is [form, g1, g2, g3],  *)
(* form the pattern ("iso", "fr", "long") and g1..g3 the int() of its      *)
(* groups (for "long", g2 is the position of the month name in MONTHS_FR   *)
(* plus one).  A date is <<year, month, day>>; NoDate is None.             *)

NoDate == <<0, 0, 0>>

IsLeap(y) == (y % 4 = 0 /\ y % 100 # 0) \/ y % 400 = 0

DaysInMonth(y, m) ==
    IF m = 2 THEN (IF IsLeap(y) THEN 29 ELSE 28)
    ELSE IF m \in {4, 6, 9, 11} THEN 30 ELSE 31

\* date(y, m, d): the date, or None where datetime.date raises ValueError.
MakeDate(y, m, d) ==
    IF y \in 1..9999 /\ m \in 1..12 /\ d >= 1 /\ d <= DaysInMonth(y, m)
    THEN <<y, m, d>> ELSE NoDate

\* d1 <= d2 on dates
DateLeq(d1, d2) ==
    \/ d1[1] < d2[1]
    \/ d1[1] = d2[1] /\ d1[2] < d2[2]
    \/ d1[1] = d2[1] /\ d1[2] = d2[2] /\ d1[3] <= d2[3]

\* A plausible slip: a two-digit year is taken as it is.
ParseFrDateNoCentury(m) == MakeDate(m.g3, m.g2, m.g1)

\* _parse_fr_date(m)
ParseFrDate(m) == MakeDate(IF m.g3 < 100 THEN m.g3 + 2000 ELSE m.g3, m.g2, m.g1)

\* _parse_iso_date(m)
ParseIsoDate(m) == MakeDate(m.g1, m.g2, m.g3)

\* _parse_fr_long_date(m)
ParseFrLongDate(m) == MakeDate(m.g3, m.g2, m.g1)

ParseDate(m) ==
    CASE m.form = "iso" -> ParseIsoDate(m)
      [] m.form = "fr" -> ParseFrDate(m)
      [] OTHER -> ParseFrLongDate(m)

\* d and (date(2000, 1, 1) <= d <= date(2030, 12, 31))
Plausible(d) ==
    d # NoDate /\ DateLeq(<<2000, 1, 1>>, d) /\ DateLeq(d, <<2030, 12, 31>>)

\* for m in pattern.finditer(texte), from match i on: the first plausible
\* date of the pattern `form`.
RECURSIVE FirstDate(_, _, _)
FirstDate(matches, form, i) ==
    IF i > Len(matches) THEN NoDate
    ELSE IF matches[i].form = form /\ Plausible(ParseDate(matches[i]))
      THEN ParseDate(matches[i])
    ELSE FirstDate(matches, form, i + 1)

\* extract_date(texte)
ExtractDate(matches) ==
    IF FirstDate(matches, "iso", 1) # NoDate THEN FirstDate(matches, "iso", 1)
    ELSE IF FirstDate(matches, "fr", 1) # NoDate THEN FirstDate(matches, "fr", 1)
    ELSE FirstDate(matches, "long", 1)

\* Most matches in a text.
MaxMatches == 2

Match(form, g1, g2, g3) == [form |-> form, g1 |-> g1, g2 |-> g2, g3 |-> g3]

\* The matches the texts are made of: dates in and out of the window, on
\* its borders, with two-, three- and four-digit years, and combinations
\* that are no calendar date.
DateMatches ==
    { Match("fr", 31, 12, 24), Match("fr", 1, 3, 99), Match("fr", 29, 2, 23),
      Match("fr", 29, 2, 2024), Match("fr", 31, 12, 1999), Match("fr", 1, 1, 2031),
      Match("fr", 5, 13, 2024), Match("fr", 1, 1, 123), Match("fr", 1, 1, 0),
      Match("iso", 2024, 2, 30), Match("iso", 2031, 1, 1), Match("iso", 2030, 12, 31),
      Match("iso", 2000, 1, 1),
      Match("long", 3, 12, 2024), Match("long", 1, 1, 1999), Match("long", 31, 4, 2024) }

RECURSIVE SeqsOf(_, _)
SeqsOf(S, n) ==
    IF n = 0 THEN {<<>>}
    ELSE {<<x>> \o t : x \in S, t \in SeqsOf(S, n - 1)}

InitDate == InitFunction(UNION {SeqsOf(DateMatches, k) : k \in 0..MaxMatches})

DateStep == Return(ExtractDate(input))

SpecDate == InitDate /\ [][DateStep]_vars

\* The calendar dates of the window 2000-01-01..2030-12-31.
Window ==
    {d \in (2000..2030) \X (1..12) \X (1..31) :
        d[3] <= (IF d[2] = 2 THEN (IF d[1] % 4 = 0 THEN 29 ELSE 28)
                 ELSE IF d[2] \in {4, 6, 9, 11} THEN 30 ELSE 31)}

\* The date a match denotes, a two-digit year of the numeric form read as
\* 2000 + yy.
Denotes(m) ==
    CASE m.form = "iso" -> <<m.g1, m.g2, m.g3>>
      [] m.form = "fr" -> <<IF m.g3 < 100 THEN 2000 + m.g3 ELSE m.g3, m.g2, m.g1>>
      [] OTHER -> <<m.g3, m.g2, m.g1>>

\* C17: extract_date returns None or a date of the window; it returns a
\* date exactly when some match denotes a date of the window, and then the
\* date one of them denotes; matches that denote a date outside the window
\* or no calendar date are passed over.
C17_DateInWindow ==
    output.done =>
        LET good == {i \in 1..Len(input) : Denotes(input[i]) \in Window}
        IN  /\ output.value = NoDate \/ output.value \in Window
            /\ good = {} <=> output.value = NoDate
            /\ good # {} => \E i \in good : output.value = Denotes(input[i])

\* C17 witness: after 01/03/99, which is outside the window, 31/12/24 is
\* read as 2024-12-31.
C17_Witness ==
    /\ output.done /\ output.value = <<2024, 12, 31>>
    /\ input = <<Match("fr", 1, 3, 99), Match("fr", 31, 12, 24)>>

-----------------------------------------------------------------------------
(* extract.py: extract_montant_ttc.  The text is given by the amounts in   *)
(* it, in document order: an amount is [label, number, mark, after], label *)
(* whether one of the phrases of MONTANT_TTC precedes it, number the       *)
(* characters the group ([\d\s]+[,\.]\d{2}) captures, mark the word that   *)
(* follows the number (empty when no currency word does) and after the     *)
(* character behind the mark ("" at the end of the text).  A float is its  *)
(* value in hundredths.                                                    *)

NBSP == "<nbsp>"

ValueError == 0 - 2

\* s.replace(" ", "").replace(",", ".")
MoneyReplace(s) ==
    LET t == SelectSeq(s, LAMBDA c : c # " ")
    IN  [i \in 1..Len(t) |-> IF t[i] = "," THEN "." ELSE t[i]]

IsDigit(c) == \E d \in 1..10 : DigitChar[d] = c

RECURSIVE DigitsValue(_)
DigitsValue(s) ==
    IF s = <<>> THEN 0
    ELSE DigitsValue(SubSeq(s, 1, Len(s) - 1)) * 10
            + ((CHOOSE d \in 1..10 : DigitChar[d] = s[Len(s)]) - 1)

\* float(s) of a string of the group's shape: white space at both ends is
\* dropped; any other character that is neither a digit nor the decimal
\* point raises ValueError.
Float(s) ==
    LET keep == {i \in 1..Len(s) : s[i] \notin Whitespace \cup {NBSP}}
        t == IF keep = {} THEN <<>>
             ELSE SubSeq(s, CHOOSE i \in keep : \A j \in keep : i <= j, Max(keep))
    IN  IF t = <<>> \/ \E i \in 1..Len(t) : ~IsDigit(t[i]) /\ t[i] # "."
        THEN ValueError
        ELSE DigitsValue(SelectSeq(t, IsDigit))

\* (?:€|eur|euros?)
CurrencyWords ==
    { <<"€">>, <<"e", "u", "r">>, <<"e", "u", "r", "o">>, <<"e", "u", "r", "o", "s">> }

\* \w on the characters that end a mark or follow it
IsWord(c) == c \in {"r", "o", "s", "x"}

\* MONTANT_FALLBACK matches the amount: a currency word, then \b.
FallbackMatches(a) ==
    /\ Lower(a.mark) \in CurrencyWords
    /\ IsWord(Lower(a.mark)[Len(a.mark)]) # (a.after # "" /\ IsWord(a.after))

\* MONTANT_TTC matches the amount.
LabelMatches(a) == a.label

\* for m in reversed(list(MONTANT_FALLBACK.finditer(texte))), from amount
\* i down.
RECURSIVE LastFallback(_, _)
LastFallback(amounts, i) ==
    IF i = 0 THEN NoAmount
    ELSE IF FallbackMatches(amounts[i])
            /\ Float(MoneyReplace(amounts[i].number)) # ValueError
      THEN Float(MoneyReplace(amounts[i].number))
    ELSE LastFallback(amounts, i - 1)

\* extract_montant_ttc(texte)
ExtractMontantTtc(amounts) ==
    LET found == {i \in 1..Len(amounts) : LabelMatches(amounts[i])}
        m == CHOOSE i \in found : \A j \in found : i <= j
    IN  IF found # {} /\ Float(MoneyReplace(amounts[m].number)) # ValueError
        THEN Float(MoneyReplace(amounts[m].number))
        ELSE LastFallback(amounts, Len(amounts))

\* Most amounts in a text.
MaxAmounts == 2

Amount(label, number, mark, after) ==
    [label |-> label, number |-> number, mark |-> mark, after |-> after]

Number1 == <<"1", "2", ",", "5", "0">>
Number2 == <<"1", " ", "2", "3", "4", ",", "5", "6">>
Number3 == <<"1", NBSP, "0", "0", "0", ",", "0", "0">>
Number4 == <<"9", "9", ".", "0", "0">>

\* The amounts the texts are made of: labeled or not, with a space or a
\* no-break space between the thousands, followed by no currency word, by
\* the euro sign or by a currency word, before a space, a letter, a full
\* stop or the end of the text.
TextAmounts ==
    { Amount(TRUE, Number1, <<>>, " "),
      Amount(TRUE, Number2, <<"€">>, " "),
      Amount(TRUE, Number3, <<"€">>, ""),
      Amount(FALSE, Number4, <<"E", "U", "R">>, " "),
      Amount(FALSE, Number1, <<"€">>, ""),
      Amount(FALSE, Number1, <<"€">>, "x"),
      Amount(FALSE, Number2, <<"e", "u", "r", "o", "s">>, "."),
      Amount(FALSE, Number3, <<"E", "U", "R">>, " "),
      Amount(FALSE, Number4, <<>>, " ") }

InitMontant == InitFunction(UNION {SeqsOf(TextAmounts, k) : k \in 0..MaxAmounts})

MontantStep == Return(ExtractMontantTtc(input))

SpecMontant == InitMontant /\ [][MontantStep]_vars

\* The value an amount denotes, in hundredths: its digits.
Denoted(a) == DigitsValue(SelectSeq(a.number, IsDigit))

\* C18 (as claimed): a labeled amount of the text is returned whenever
\* there is one; without any, the last amount followed by a currency word
\* is returned; without either, the result is absent.
C18_LabelWins ==
    output.done =>
        LET labeled == {i \in 1..Len(input) : input[i].label}
            marked == {i \in 1..Len(input) : input[i].mark # <<>>}
        IN  IF labeled # {}
              THEN \E i \in labeled : output.value = Denoted(input[i])
            ELSE IF marked # {}
              THEN output.value = Denoted(input[Max(marked)])
            ELSE output.value = NoAmount

-----------------------------------------------------------------------------
(* suppliers.py: resolve_fournisseur.  The mapping is the list of its      *)
(* items in insertion order; an item carries, next to the folder name, the *)
(* answers of the library for the raw text and its alias: ratio,           *)
(* partial_ratio, and whether the alias is contained in the raw text.      *)

DEFAULT_SCORE_CUTOFF == 70

\* A plausible slip: >= in place of >, a tie goes to the later alias.
RECURSIVE BestMatchLastWins(_, _, _, _, _)
BestMatchLastWins(candidates, score_cutoff, i, best_ratio, best_value) ==
    IF i > Len(candidates) THEN best_value
    ELSE LET c == candidates[i]
             r1 == IF c.ratio >= score_cutoff /\ c.ratio >= best_ratio
                   THEN c.ratio ELSE best_ratio
             v1 == IF c.ratio >= score_cutoff /\ c.ratio >= best_ratio
                   THEN c.folder_name ELSE best_value
             r2 == IF c.partial_ratio >= score_cutoff /\ c.partial_ratio >= r1
                   THEN c.partial_ratio ELSE r1
             v2 == IF c.partial_ratio >= score_cutoff /\ c.partial_ratio >= r1
                   THEN c.folder_name ELSE v1
         IN  BestMatchLastWins(candidates, score_cutoff, i + 1, r2, v2)

\* for alias, folder_name in candidates: ... (from item i on)
RECURSIVE BestMatch(_, _, _, _, _)
BestMatch(candidates, score_cutoff, i, best_ratio, best_value) ==
    IF i > Len(candidates) THEN best_value
    ELSE LET c == candidates[i]
             r1 == IF c.ratio >= score_cutoff /\ c.ratio > best_ratio
                   THEN c.ratio ELSE best_ratio
             v1 == IF c.ratio >= score_cutoff /\ c.ratio > best_ratio
                   THEN c.folder_name ELSE best_value
             r2 == IF c.partial_ratio >= score_cutoff /\ c.partial_ratio > r1
                   THEN c.partial_ratio ELSE r1
             v2 == IF c.partial_ratio >= score_cutoff /\ c.partial_ratio > r1
                   THEN c.folder_name ELSE v1
         IN  BestMatch(candidates, score_cutoff, i + 1, r2, v2)

\* Without the library: the first alias contained in the raw text.
RECURSIVE FirstContained(_, _, _)
FirstContained(candidates, fournisseur, i) ==
    IF i > Len(candidates) THEN fournisseur
    ELSE IF candidates[i].contained THEN candidates[i].folder_name
    ELSE FirstContained(candidates, fournisseur, i + 1)

\* resolve_fournisseur(extracted, mapping_fournisseurs, score_cutoff): the
\* value of extracted.fournisseur afterwards.
ResolveFournisseur(extracted, mapping_fournisseurs, score_cutoff, rapidfuzz) ==
    IF ~Truthy(extracted.fournisseur_raw) \/ mapping_fournisseurs = <<>>
      THEN extracted.fournisseur
    ELSE IF ~rapidfuzz
      THEN FirstContained(mapping_fournisseurs, extracted.fournisseur, 1)
    ELSE LET best_value == BestMatch(mapping_fournisseurs, score_cutoff, 1, 0, None)
         IN  IF Truthy(best_value) THEN best_value ELSE extracted.fournisseur

\* Most aliases in a mapping.
MaxAliases == 2

Candidates ==
    [folder_name : {"EDF", "ENGIE"}, ratio : {60, 70, 90},
     partial_ratio : {60, 90}, contained : BOOLEAN]

SupplierInputs ==
    [extracted : [fournisseur_raw : {None, "EDF SA"}, fournisseur : {None}],
     mapping : UNION {SeqsOf(Candidates, k) : k \in 0..MaxAliases},
     rapidfuzz : BOOLEAN]

InitSupplier == InitFunction(SupplierInputs)

SupplierStep ==
    Return(ResolveFournisseur(input.extracted, input.mapping,
                              DEFAULT_SCORE_CUTOFF, input.rapidfuzz))

SpecSupplier == InitSupplier /\ [][SupplierStep]_vars

\* The score of an alias: the larger of its two similarities.
Score(c) == IF c.ratio >= c.partial_ratio THEN c.ratio ELSE c.partial_ratio

\* C19: with the similarity library, fournisseur becomes the folder name of
\* the first alias among those of maximum score, provided that score
\* reaches the cutoff of 70; without raw text, with an empty mapping, or
\* when no alias reaches the cutoff, fournisseur keeps its value.
C19_BestAliasWins ==
    output.done /\ input.rapidfuzz =>
        LET m == input.mapping
            reach == {i \in 1..Len(m) : Score(m[i]) >= 70}
            best == {i \in reach : \A j \in reach : Score(m[j]) <= Score(m[i])}
        IN  IF input.extracted.fournisseur_raw = None \/ m = <<>> \/ reach = {}
            THEN output.value = input.extracted.fournisseur
            ELSE output.value = m[Min(best)].folder_name

\* C19 witness: two aliases of different folders tie at the maximum score,
\* one by partial_ratio and one by ratio, and the first one is chosen.
C19_Witness ==
    /\ output.done /\ input.rapidfuzz /\ input.extracted.fournisseur_raw # None
    /\ Len(input.mapping) = 2
    /\ input.mapping[1].folder_name = "EDF" /\ input.mapping[2].folder_name = "ENGIE"
    /\ input.mapping[1].ratio = 70 /\ input.mapping[1].partial_ratio = 90
    /\ input.mapping[2].ratio = 90
    /\ output.value = "EDF"

-----------------------------------------------------------------------------
(* rules.py: get_rule_for_type on its own, over the rule lists of up to    *)
(* MaxRules rules.                                                         *)

\* Most rules in regles_classement.
MaxRules == 2

OtherTemplate == <<"G">>

RuleTypes ==
    { TypeAvoir, <<" ", "A", "v", "o", "i", "r">>, TypeInconnu,
      <<"d", "e", "f", "a", "u", "l", "t">>, <<"D", "é", "f", "a", "u", "t">> }

Rules == {Rule(t, c) : t \in RuleTypes, c \in {PathTemplate, OtherTemplate}}

RuleInputs ==
    [type_document : DocTypes,
     regles : UNION {SeqsOf(Rules, k) : k \in 0..MaxRules}]

InitRule == InitFunction(RuleInputs)

RuleStep == Return(GetRuleForType(input.type_document, input.regles))

SpecRule == InitRule /\ [][RuleStep]_vars

-----------------------------------------------------------------------------
(* main.py, rules.py: the file-name template of a direct move.  The        *)
(* mapping formats_par_dossier is the list of its items (motif, template)  *)
(* in insertion order; dest_str is the resolved destination directory with *)
(* forward slashes.                                                        *)

\* The default of get_filename_template_for_dest
DefaultNomFichier ==
    <<"{", "Y", "Y", "Y", "Y", "}", "-", "{", "M", "M", "}", "-", "{",
    "D", "D", "}", "_", "{", "t", "y", "p", "e", "_", "d", "o", "c", "}",
    "_", "{", "f", "o", "u", "r", "n", "i", "s", "s", "e", "u", "r", "}",
    "_", "{", "n", "u", "m", "e", "r", "o", "}", "_", "{", "m", "o", "n",
    "t", "a", "n", "t", "}", ".", "p", "d", "f">>

\* motif.replace("\\", "/")
SlashesForward(s) == [i \in 1..Len(s) |-> IF s[i] = "\\" THEN "/" ELSE s[i]]

\* s.strip("/")
StripSlashes(s) ==
    LET keep == {i \in 1..Len(s) : s[i] # "/"}
    IN  IF keep = {} THEN <<>> ELSE SubSeq(s, Min(keep), Max(keep))

\* Path(s).parts of an absolute path, read from character i on, cur the
\* component being read.
RECURSIVE PartsFrom(_, _, _)
PartsFrom(s, i, cur) ==
    IF i > Len(s) THEN (IF cur = <<>> THEN <<>> ELSE <<cur>>)
    ELSE IF s[i] = "/"
      THEN (IF cur = <<>> THEN <<>> ELSE <<cur>>) \o PartsFrom(s, i + 1, <<>>)
    ELSE PartsFrom(s, i + 1, Append(cur, s[i]))

PathParts(s) ==
    (IF s # <<>> /\ s[1] = "/" THEN << <<"/">> >> ELSE <<>>) \o PartsFrom(s, 1, <<>>)

\* Path(s).name
PathName(s) ==
    LET p == PartsFrom(s, 1, <<>>) IN IF p = <<>> THEN <<>> ELSE p[Len(p)]

\* The tests of one item of formats_par_dossier (lines 154-161).
MotifMatches(motif, template, dest_str) ==
    /\ motif # <<>> /\ template # <<>>
    /\ \/ Contains(dest_str, StripSlashes(SlashesForward(motif)))
       \/ EndsWith(dest_str, StripSlashes(SlashesForward(motif)))
       \/ PathName(dest_str) = motif
       \/ \E k \in 1..Len(PathParts(dest_str)) : PathParts(dest_str)[k] = motif

\* for motif, template in formats_par_dossier.items(): ... (from item i on)
RECURSIVE FirstFormat(_, _, _, _)
FirstFormat(formats, dest_str, default, i) ==
    IF i > Len(formats) THEN default
    ELSE IF MotifMatches(formats[i].motif, formats[i].template, dest_str)
      THEN formats[i].template
    ELSE FirstFormat(formats, dest_str, default, i + 1)

\* get_filename_template_for_dest(dest_dir_path, config)
GetFilenameTemplateForDest(dest_str, modele_nom_fichier, formats) ==
    FirstFormat(formats, dest_str,
                IF modele_nom_fichier # <<>> THEN modele_nom_fichier
                ELSE DefaultNomFichier, 1)

\* process_one_pdf, lines 79-81: modele_nom_dest.  rule_nom is rule[1].
ModeleNomDest(rule_nom, modele_nom_fichier, formats, dest_str) ==
    LET modele_nom_doc ==
            Strip(IF rule_nom # <<>> THEN rule_nom ELSE modele_nom_fichier)
    IN  IF modele_nom_doc # <<>> THEN modele_nom_doc
        ELSE GetFilenameTemplateForDest(dest_str, modele_nom_fichier, formats)

\* Most items in formats_par_dossier.
MaxFormats == 2

FilenameInputs ==
    [rule_nom : {<<>>, <<"R">>, <<" ">>},
     modele_nom_fichier : {<<>>, <<"C">>},
     dest_str : {<<"/", "d", "/", "F">>, <<"/", "d", "/", "G">>},
     formats : UNION {SeqsOf([motif : {<<"F">>, <<"\\", "d", "\\", "F", "\\">>,
                                       <<"G">>, <<"H">>},
                              template : {<<"O">>, <<>>}], k) : k \in 0..MaxFormats}]

FilenameStep ==
    Return(ModeleNomDest(input.rule_nom, input.modele_nom_fichier,
                         input.formats, input.dest_str))

SpecFilename == InitFunction(FilenameInputs) /\ [][FilenameStep]_vars

\* The items of the override map that match the destination by suffix or by
\* path component.
Overrides ==
    {i \in 1..Len(input.formats) :
        LET m == StripSlashes(SlashesForward(input.formats[i].motif))
        IN  /\ input.formats[i].template # <<>> /\ m # <<>>
            /\ \/ EndsWith(input.dest_str, m)
               \/ \E k \in 1..Len(PathParts(input.dest_str)) :
                     PathParts(input.dest_str)[k] = m }

\* C21 (as claimed): the template of a direct move is that of a matching
\* override when there is one; otherwise the rule's own template when it
\* has one; otherwise the global default template.
C21_OverrideFirst ==
    output.done =>
        IF Overrides # {}
          THEN \E i \in Overrides : output.value = input.formats[i].template
        ELSE IF input.rule_nom \notin {<<>>, <<" ">>}
          THEN output.value = input.rule_nom
        ELSE output.value \in {input.modele_nom_fichier, DefaultNomFichier}

-----------------------------------------------------------------------------
(* Claims on the holding-folder move (SpecMove).                           *)

\* The paths of the holding folder where the document of the last call is.
Held == {p \in Copies(fs, last.doc) : p[1] = HOLDING}

\* C22 (as claimed): after a live holding-folder move, either the document
\* is in the holding folder with its sidecar next to it and the result
\* reports success, or the document is not in the holding folder and the
\* result reports an error.
C22_HoldingAllOrNothing ==
    (last.strategy = "holding" /\ ~last.dry_run /\ last.doc \in Docs) =>
        \/ /\ Held # {}
           /\ \A p \in Held : Exists(fs, <<HOLDING, MetaName(p[2])>>)
           /\ last.result.moved /\ last.result.error = NoError
        \/ /\ Held = {}
           /\ last.result.error # NoError

-----------------------------------------------------------------------------
(* Claims on the running program (Spec).                                   *)

\* C23 (as claimed): a file is handed to the orchestrator by one of the
\* ticker and the startup scan only: the two never run process_one_pdf on
\* the same path at the same time.
C23_OnePipelinePerFile ==
    ~(/\ pipe["ticker"].pc # "idle" /\ pipe["scan"].pc # "idle"
      /\ pipe["ticker"].path = pipe["scan"].path)

-----------------------------------------------------------------------------
(* SpecLoop: the handler under stability_loop.  The ticker thread is in    *)
(* stop_flag.wait(check_interval) (pipe["ticker"].pc = "idle") or has      *)
(* woken and runs _check_pending (pc = "wake"): a check follows every      *)
(* interval.  The files are written, deleted and notified up to the        *)
(* instant QuietFrom and left alone afterwards, which leaves a changed     *)
(* file the time to stabilise before MaxTime.                              *)

QuietFrom == MaxTime - StabilitySeconds - 1

\* while not stop_flag.wait(handler.check_interval): the interval elapses.
Wait ==
    /\ pipe["ticker"].pc = "idle"
    /\ now < MaxTime
    /\ now' = now + 1
    /\ dispatched' = {}
    /\ pipe' = [pipe EXCEPT !["ticker"].pc = "wake"]
    /\ UNCHANGED <<fs, dirs, config, last, arrived, pending, lastObs, scan, queue, written, stop, input, output>>

\* lastObs after a check of the loop: as ObsAfterCheck, and for a tracked
\* path whose file the check did not find, the recorded timestamp and
\* "gone".
ObsAfterLoopCheck(pend2) ==
    LET gone == {p \in DOMAIN pending : ~Exists(fs, p)}
    IN  [p \in DOMAIN pend2 \cup gone |->
            IF p \in gone THEN [ts |-> pending[p].ts, why |-> "gone"]
            ELSE ObsAfterCheck(pend2)[p]]

\* handler._check_pending() in the loop, its callbacks returning.
LoopCheck(away) ==
    LET pend2 == AfterCheck(pending, fs, now, StabilitySeconds)
        calls == Dispatch(pending, fs, now, StabilitySeconds, MinFileSize)
    IN  /\ pipe["ticker"].pc = "wake"
        /\ away \subseteq calls
        /\ pending' = pend2
        /\ lastObs' = ObsAfterLoopCheck(pend2)
        /\ dispatched' = {DispatchRecord(p, "ticker") : p \in calls}
        /\ fs' = [p \in DOMAIN fs \ away |-> fs[p]]
        /\ pipe' = [pipe EXCEPT !["ticker"].pc = "idle"]
        /\ UNCHANGED <<dirs, config, last, arrived, now, scan, queue, written, stop, input, output>>

LoopWrite(name, size) == now <= QuietFrom /\ Write(name, size)

LoopDelete(name) == now <= QuietFrom /\ Delete(name)

\* on_created / on_modified in the loop; lastObs notes "notified" for a
\* path that was tracked already when the notification came.
LoopEvent(name) ==
    LET p == <<INBOX, name>>
        pend2 == OnEvent(pending, fs, p, now, MinFileSize)
    IN  /\ now <= QuietFrom
        /\ pending' = pend2
        /\ lastObs' = [q \in DOMAIN pend2 |->
                          IF q = p /\ p \in DOMAIN pending
                          THEN [lastObs[p] EXCEPT !.why = "notified"]
                          ELSE ObsAfterEvent(pend2)[q]]
        /\ UNCHANGED <<fs, dirs, config, last, arrived, now, dispatched, scan, pipe, queue, written, stop, input, output>>

NextLoop ==
    \/ Wait
    \/ \E away \in SUBSET WatchPaths : LoopCheck(away)
    \/ \E name \in WatchNames, size \in 0..MaxSize : LoopWrite(name, size)
    \/ \E name \in WatchNames : LoopDelete(name)
    \/ \E name \in WatchNames : LoopEvent(name)

\* The ticker thread is scheduled: its wait ends and its check runs.
SpecLoop ==
    /\ InitWatch /\ [][NextLoop]_vars
    /\ WF_vars(Wait) /\ WF_vars(\E away \in SUBSET WatchPaths : LoopCheck(away))

\* C24: once the files are left alone, every tracked file that is present
\* and passes the filters is eventually handed to the callback and removed
\* from tracking, and the pending map becomes and stays empty.
C24_StableEventuallyDispatched ==
    /\ \A p \in WatchPaths :
          (/\ now > QuietFrom /\ p \in DOMAIN pending
           /\ Exists(fs, p) /\ ~ShouldIgnore(fs, p, MinFileSize))
             ~> (p \notin DOMAIN pending /\ \E r \in dispatched : r.path = p)
    /\ <>[](DOMAIN pending = {})

\* C24 witness: a file whose size changed while it was tracked has been
\* dispatched after the files were left alone, and nothing is tracked.
C24_Witness ==
    /\ now > QuietFrom /\ DOMAIN pending = {}
    /\ \E r \in dispatched : r.obs.why = "changed"

\* C25: a tracked path whose file a check did not find is out of the
\* pending map after that check and was not handed to the callback by it.
C25_GoneIsDropped ==
    \A p \in DOMAIN lastObs :
        lastObs[p].why = "gone" =>
            /\ p \notin DOMAIN pending
            /\ \A r \in dispatched : r.path # p

\* C25 witness: the file was missing at a check made when its stability
\* duration had elapsed; it is neither tracked nor dispatched.
C25_Witness ==
    \E p \in DOMAIN lastObs :
        /\ lastObs[p].why = "gone" /\ now - lastObs[p].ts >= StabilitySeconds
        /\ pipe["ticker"].pc = "idle" /\ dispatched = {}
        /\ p \notin DOMAIN pending

\* C26: an entry of the pending map changes only in a periodic check, and
\* an entry is added only outside a check, for a present file that passes
\* the filters, with the file's current size and the current time: a
\* notification for a tracked file leaves its entry as it is.
C26_EntryStep ==
    /\ \A p \in DOMAIN pending \cap DOMAIN pending' :
          pending'[p] # pending[p] =>
              pipe["ticker"].pc = "wake" /\ pipe'["ticker"].pc = "idle"
    /\ \A p \in DOMAIN pending' \ DOMAIN pending :
          /\ pipe' = pipe
          /\ Exists(fs, p) /\ IsPdf(p[2]) /\ ~MatchesExclude(p[2])
          /\ pending'[p] = [size |-> fs[p].size, ts |-> now]

C26_NotificationKeepsEntry == [][C26_EntryStep]_vars

\* C26 witness: a tracked file was notified again at a later instant and
\* with another size than recorded, and its entry still holds the first
\* size and timestamp.
C26_Witness ==
    \E p \in DOMAIN pending :
        /\ lastObs[p].why = "notified"
        /\ pending[p].ts < now /\ pending[p].ts = lastObs[p].ts
        /\ Exists(fs, p) /\ fs[p].size # pending[p].size

-----------------------------------------------------------------------------
(* SpecFilter: a StableFileHandler(min_file_size = FilterMinSize) under    *)
(* stability_loop, with files the filters refuse: a.txt (extension),       *)
(* ~a.pdf (exclude pattern) and a.pdf when it shrinks below the minimum.   *)
(* Paths enter tracking by notifications and by direct calls of            *)
(* _schedule_check.  The callback leaves the file where it is.             *)

FilterMinSize == 1

NameTxt == <<"a", ".", "t", "x", "t">>
NameTilde == <<"~">> \o NameA
FilterNames == {NameA, NameTxt, NameTilde}

\* lastObs in SpecFilter: for a tracked path "tracked"; for a path the last
\* check found stable and did not hand to the callback, "filtered".
FilterObs(pend2, filtered) ==
    [p \in DOMAIN pend2 \cup filtered |->
        [ts |-> 0, why |-> IF p \in DOMAIN pend2 THEN "tracked" ELSE "filtered"]]

\* A file is written; a.pdf with a size up to the minimum, the others with
\* the minimum size.
FilterWrite(name, size) ==
    /\ name # NameA => size = FilterMinSize
    /\ Write(name, size)

\* on_created / on_modified
FilterEvent(name) ==
    LET pend2 == OnEvent(pending, fs, <<INBOX, name>>, now, FilterMinSize)
    IN  /\ pending' = pend2
        /\ lastObs' = FilterObs(pend2, {})
        /\ UNCHANGED <<fs, dirs, config, last, arrived, now, dispatched, scan, pipe, queue, written, stop, input, output>>

\* handler._schedule_check(path), called directly.
FilterSchedule(name) ==
    LET pend2 == ScheduleCheck(pending, fs, <<INBOX, name>>, now)
    IN  /\ pending' = pend2
        /\ lastObs' = FilterObs(pend2, {})
        /\ UNCHANGED <<fs, dirs, config, last, arrived, now, dispatched, scan, pipe, queue, written, stop, input, output>>

\* handler._check_pending() in the loop.
FilterCheck ==
    LET pend2 == AfterCheck(pending, fs, now, StabilitySeconds)
        calls == Dispatch(pending, fs, now, StabilitySeconds, FilterMinSize)
    IN  /\ pipe["ticker"].pc = "wake"
        /\ pending' = pend2
        /\ lastObs' = FilterObs(pend2,
                        {p \in DOMAIN pending :
                            /\ Exists(fs, p) /\ fs[p].size = pending[p].size
                            /\ now - pending[p].ts >= StabilitySeconds
                            /\ ShouldIgnore(fs, p, FilterMinSize)})
        /\ dispatched' = {DispatchRecord(p, "ticker") : p \in calls}
        /\ pipe' = [pipe EXCEPT !["ticker"].pc = "idle"]
        /\ UNCHANGED <<fs, dirs, config, last, arrived, now, scan, queue, written, stop, input, output>>

NextFilter ==
    \/ Wait
    \/ FilterCheck
    \/ \E name \in FilterNames, size \in 0..FilterMinSize : FilterWrite(name, size)
    \/ \E name \in FilterNames : FilterEvent(name)
    \/ \E name \in FilterNames : FilterSchedule(name)

SpecFilter == InitWatch /\ [][NextFilter]_vars

\* C27: every file handed to the callback has the extension .pdf, a name
\* that matches no exclude pattern and at least the minimum size; a tracked
\* file that a check finds stable and that fails one of the three is out of
\* the pending map after that check, and not dispatched.
C27_FilteredNeverDispatched ==
    /\ \A r \in dispatched :
          /\ Lower(Suffix(r.path[2])) = <<".", "p", "d", "f">>
          /\ r.path[2][1] # "~"
          /\ Suffix(r.path[2]) \notin {<<".", "t", "m", "p">>, <<".", "p", "a", "r", "t">>}
          /\ r.size >= FilterMinSize
    /\ \A p \in DOMAIN lastObs :
          lastObs[p].why = "filtered" =>
              /\ p \notin DOMAIN pending
              /\ \A r \in dispatched : r.path # p

\* C27 witness: in one check, a.txt and ~a.pdf, tracked by direct calls,
\* and a.pdf, shrunk below the minimum after its notification, were found
\* stable and dropped.
C27_Witness ==
    /\ \A name \in FilterNames :
          /\ <<INBOX, name>> \in DOMAIN lastObs
          /\ lastObs[<<INBOX, name>>].why = "filtered"
    /\ fs[<<INBOX, NameA>>].size < FilterMinSize
    /\ dispatched = {} /\ DOMAIN pending = {}

-----------------------------------------------------------------------------
(* SpecRaise: the handler under stability_loop with callbacks that raise.  *)
(* The callback leaves the file where it is.                               *)

\* A plausible slip: the call of the callback without try/except: the
\* first exception leaves _check_pending and stability_loop, and the
\* thread ends.
CallbackLoopNoExcept(calls, raising) ==
    IF calls \cap raising = {} THEN [called |-> calls, pc |-> "idle"]
    ELSE [called |-> {CHOOSE p \in calls \cap raising : TRUE}, pc |-> "dead"]

\* The dispatch loop, lines 106-112: the paths whose callback was called
\* and where the ticker thread is afterwards.  raising: the paths for which
\* on_stable_file raises an Exception.
CallbackLoop(calls, raising) == [called |-> calls, pc |-> "idle"]

\* lastObs in SpecRaise: for a path the check of the instant ts found
\* stable and eligible, "raised" when its callback raised and "returned"
\* otherwise; "tracked" for a tracked path.
RaiseObs(pend2, calls, raising) ==
    [p \in DOMAIN pend2 \cup calls |->
        IF p \in calls
        THEN [ts |-> now, why |-> IF p \in raising THEN "raised" ELSE "returned"]
        ELSE [ts |-> 0, why |-> "tracked"]]

\* handler._check_pending() in the loop.
RaiseCheck(raising) ==
    LET pend2 == AfterCheck(pending, fs, now, StabilitySeconds)
        calls == Dispatch(pending, fs, now, StabilitySeconds, MinFileSize)
        loop == CallbackLoop(calls, raising)
    IN  /\ pipe["ticker"].pc = "wake"
        /\ raising \subseteq calls
        /\ pending' = pend2
        /\ lastObs' = RaiseObs(pend2, calls, raising)
        /\ dispatched' = {DispatchRecord(p, "ticker") : p \in loop.called}
        /\ pipe' = [pipe EXCEPT !["ticker"].pc = loop.pc]
        /\ UNCHANGED <<fs, dirs, config, last, arrived, now, scan, queue, written, stop, input, output>>

\* on_created / on_modified
RaiseEvent(name) ==
    LET pend2 == OnEvent(pending, fs, <<INBOX, name>>, now, MinFileSize)
    IN  /\ pending' = pend2
        /\ lastObs' = RaiseObs(pend2, {}, {})
        /\ UNCHANGED <<fs, dirs, config, last, arrived, now, dispatched, scan, pipe, queue, written, stop, input, output>>

NextRaise ==
    \/ Wait
    \/ \E raising \in SUBSET WatchPaths : RaiseCheck(raising)
    \/ \E name \in WatchNames, size \in 0..MaxSize : Write(name, size)
    \/ \E name \in WatchNames : Delete(name)
    \/ \E name \in WatchNames : RaiseEvent(name)

SpecRaise == InitWatch /\ [][NextRaise]_vars

\* C28: the ticker thread survives every check; every file a check found
\* stable and eligible was handed to the callback in that check, whether
\* or not a callback of the same check raised; and a file whose callback
\* raised is not tracked afterwards.
C28_CallbackErrorContained ==
    /\ pipe["ticker"].pc \in {"idle", "wake"}
    /\ \A p \in DOMAIN lastObs :
          lastObs[p].why \in {"raised", "returned"} =>
              /\ p \notin DOMAIN pending
              /\ lastObs[p].ts = now => \E r \in dispatched : r.path = p

\* C28 witness: in one check the callback raised for one file and returned
\* for another, both were dispatched, and the ticker waits for its next
\* check.
C28_Witness ==
    /\ pipe["ticker"].pc = "idle"
    /\ \E p, q \in DOMAIN lastObs :
          /\ lastObs[p].why = "raised" /\ lastObs[q].why = "returned"
          /\ lastObs[p].ts = now /\ lastObs[q].ts = now
          /\ \E r \in dispatched : r.path = p
          /\ \E r \in dispatched : r.path = q

-----------------------------------------------------------------------------
(* rules.py: apply_template.  placeholders is the list of the dictionary's *)
(* items (key, value) in insertion order.                                  *)

\* str.replace(old, new) from character i on: every occurrence, leftmost
\* first, without overlap.
RECURSIVE ReplaceFrom(_, _, _, _)
ReplaceFrom(s, old, new, i) ==
    IF i > Len(s) THEN <<>>
    ELSE IF i + Len(old) - 1 <= Len(s) /\ SubSeq(s, i, i + Len(old) - 1) = old
      THEN new \o ReplaceFrom(s, old, new, i + Len(old))
    ELSE <<s[i]>> \o ReplaceFrom(s, old, new, i + 1)

\* for key, value in placeholders.items(): result.replace("{" + key + "}",
\* str(value)), from item k on.
RECURSIVE ReplaceKeys(_, _, _)
ReplaceKeys(s, placeholders, k) ==
    IF k > Len(placeholders) THEN s
    ELSE ReplaceKeys(ReplaceFrom(s, <<"{">> \o placeholders[k].key \o <<"}">>,
                                 placeholders[k].value, 1),
                     placeholders, k + 1)

\* re.sub(r"\{[^}]+\}", "", result) from character i on: a match starts at
\* a "{" whose next "}" is at least two characters further.
RECURSIVE RemoveTokens(_, _)
RemoveTokens(s, i) ==
    IF i > Len(s) THEN <<>>
    ELSE LET closing == {j \in (i + 1)..Len(s) : s[j] = "}"}
         IN  IF s[i] = "{" /\ closing # {} /\ Min(closing) >= i + 2
             THEN RemoveTokens(s, Min(closing) + 1)
             ELSE <<s[i]>> \o RemoveTokens(s, i + 1)

\* str.strip(chars)
StripChars(s, chars) ==
    LET keep == {i \in 1..Len(s) : s[i] \notin chars}
    IN  IF keep = {} THEN <<>> ELSE SubSeq(s, Min(keep), Max(keep))

\* apply_template(template, placeholders)
ApplyTemplate(template, placeholders) ==
    StripChars(StripChars(StripChars(
        RemoveTokens(ReplaceKeys(template, placeholders, 1), 1),
        {"/"}), {"\\"}), Whitespace)

\* Longest template.
MaxTemplateLen == 4

TemplateInputs ==
    [template : UNION {SeqsOf({"{", "k", "}", "/", "\\", " "}, n) : n \in 0..MaxTemplateLen},
     placeholders : {<<>>, <<[key |-> <<"k">>, value |-> <<"v">>]>>}]

TemplateStep == Return(ApplyTemplate(input.template, input.placeholders))

SpecTemplate == InitFunction(TemplateInputs) /\ [][TemplateStep]_vars

\* C29 (as claimed): the rendered string holds no {key} token and neither
\* starts nor ends with "/" or "\".
C29_RenderedIsClean ==
    output.done =>
        LET v == output.value
        IN  /\ ~\E i, j \in 1..Len(v) :
                  /\ j >= i + 2 /\ v[i] = "{" /\ v[j] = "}"
                  /\ \A n \in (i + 1)..(j - 1) : v[n] \notin {"{", "}"}
            /\ v # <<>> => v[1] \notin {"/", "\\"} /\ v[Len(v)] \notin {"/", "\\"}

-----------------------------------------------------------------------------
(* rules.py: build_placeholders, the built-in keys.  An absent string is   *)
(* the empty string (both are false in `x or default`), an amount is given *)
(* in hundredths, NoAmount for None.                                       *)

\* ensure_type_doc: slug_map.get(extracted.type_document, "INCONNU")
TypeDocSlug(type_document) ==
    CASE type_document = "facture_fournisseur" -> <<"F", "A", "C", "T">>
      [] type_document = "avoir" -> <<"A", "V", "R">>
      [] type_document = "devis" -> <<"D", "E", "V", "I", "S">>
      [] type_document = "courrier" -> <<"C", "O", "U", "R", "R", "I", "E", "R">>
      [] type_document = "plan" -> <<"P", "L", "A", "N">>
      [] type_document = "impots" -> <<"I", "M", "P", "O", "T", "S">>
      [] OTHER -> <<"I", "N", "C", "O", "N", "N", "U">>

\* The digits of i, zero-padded to n characters (%Y, %m, %d, .2f).
RECURSIVE Pad(_, _)
Pad(s, n) == IF Len(s) >= n THEN s ELSE Pad(<<"0">> \o s, n)

\* _format_montant(montant)
FormatMontant(montant) ==
    IF montant = NoAmount THEN <<"0">>
    ELSE ReplaceFrom(
             ReplaceFrom(IntToStr(montant \div 100) \o <<".">> \o Pad(IntToStr(montant % 100), 2),
                         <<".">>, <<",">>, 1),
             <<",">>, <<"_">>, 1)

\* build_placeholders(extracted), lines 41-64
BuildPlaceholders(extracted) ==
    LET d == extracted.date_doc
        fournisseur == Strip(IF extracted.fournisseur # <<>> THEN extracted.fournisseur
                             ELSE <<"I", "n", "c", "o", "n", "n", "u">>)
        fournisseur_slug == Slugify(fournisseur, 60)
        numero == Strip(IF extracted.numero_facture # <<>> THEN extracted.numero_facture
                        ELSE <<"N">>)
        type_doc == TypeDocSlug(extracted.type_document)
    IN  [fournisseur |-> fournisseur_slug,
         client |-> fournisseur_slug,
         impots |-> IF type_doc = <<"I", "M", "P", "O", "T", "S">> THEN fournisseur_slug
                    ELSE Slugify(<<"i", "m", "p", "o", "t", "s">>, 60),
         YYYY |-> IF d # NoDate THEN Pad(IntToStr(d[1]), 4) ELSE <<"0", "0", "0", "0">>,
         MM |-> IF d # NoDate THEN Pad(IntToStr(d[2]), 2) ELSE <<"0", "0">>,
         DD |-> IF d # NoDate THEN Pad(IntToStr(d[3]), 2) ELSE <<"0", "0">>,
         numero |-> Slugify(numero, 40),
         montant |-> FormatMontant(extracted.montant_ttc),
         type_doc |-> type_doc]

\* Longest supplier name of SpecPlaceholders.
MaxFieldLen == 3

PlaceholderInputs ==
    [type_document : {"facture_fournisseur", "impots", "x/y"},
     date_doc : {NoDate, <<2024, 3, 15>>},
     montant_ttc : {NoAmount, 5, 123456},
     numero_facture : {<<>>, <<"a", "-", "a">>, <<".", ".", "/", "a">>, <<"a", ".", "b">>},
     fournisseur : UNION {SeqsOf({"a", ".", "/", "\\", " "}, n) : n \in 0..MaxFieldLen}]

PlaceholdersStep == Return(BuildPlaceholders(input))

SpecPlaceholders == InitFunction(PlaceholderInputs) /\ [][PlaceholdersStep]_vars

\* C30: no built-in placeholder value holds "/", "\" or "."; without a date
\* the date parts are 0000, 00 and 00; an amount is written with its two
\* decimals behind an underscore.
C30_PlaceholdersAreSafe ==
    output.done =>
        LET v == output.value
        IN  /\ \A k \in DOMAIN v : \A i \in 1..Len(v[k]) : v[k][i] \notin {"/", "\\", "."}
            /\ input.date_doc = <<0, 0, 0>> =>
                  /\ v.YYYY = <<"0", "0", "0", "0">>
                  /\ v.MM = <<"0", "0">> /\ v.DD = <<"0", "0">>
            /\ input.montant_ttc >= 0 =>
                  /\ Len(v.montant) >= 4 /\ v.montant[Len(v.montant) - 2] = "_"
                  /\ \A i \in 1..Len(v.montant) :
                        i # Len(v.montant) - 2 =>
                            v.montant[i] \in {"0", "1", "2", "3", "4", "5", "6", "7", "8", "9"}

\* C30 witness: a supplier "a/a" and an invoice number "../a" give the
\* values a_a and a, with the date sentinels and the amount 1234_56.
C30_Witness ==
    /\ output.done
    /\ input.fournisseur = <<"a", "/", "a">> /\ output.value.fournisseur = <<"a", "_", "a">>
    /\ input.numero_facture = <<".", ".", "/", "a">> /\ output.value.numero = <<"a">>
    /\ input.date_doc = <<0, 0, 0>> /\ output.value.YYYY = <<"0", "0", "0", "0">>
    /\ input.montant_ttc = 123456
    /\ output.value.montant = <<"1", "2", "3", "4", "_", "5", "6">>

====
